---- MODULE Spec2Model ----
(***************************************************************************)
(* Model of the npm-practice-app command equivalence engine:               *)
(*   src/src/core/commands.ts  the command catalog NPM_COMMANDS            *)
(*   src/src/core/parser.ts    smartSplit, parseCommand, commandsMatch     *)
(* Strings are TLA+ strings (sequences of characters); every operator     *)
(* below computes its result the way the TypeScript code does.             *)
(***************************************************************************)
EXTENDS Integers, Sequences, FiniteSets, TLC

(***************************************************************************)
(* commands.ts: the catalog.  An absent `aliases` field is the empty       *)
(* sequence (the code reads it through `aliases?.`, which then is false).  *)
(* description and mockOutput play no part in parsing or matching.         *)
(***************************************************************************)
NPM_COMMANDS ==
  <<
    [name |-> "init", aliases |-> <<"create">>,
      parameters |-> <<
        [name |-> "-y", aliases |-> <<"--yes">>, requiresValue |-> FALSE],
        [name |-> "--scope", aliases |-> <<>>, requiresValue |-> TRUE] >>],
    [name |-> "install", aliases |-> <<"i", "add">>,
      parameters |-> <<
        [name |-> "-g", aliases |-> <<"--global">>, requiresValue |-> FALSE],
        [name |-> "--save-dev", aliases |-> <<"-D">>, requiresValue |-> FALSE],
        [name |-> "--save", aliases |-> <<"-S">>, requiresValue |-> FALSE],
        [name |-> "--save-optional", aliases |-> <<"-O">>, requiresValue |-> FALSE],
        [name |-> "--no-save", aliases |-> <<>>, requiresValue |-> FALSE],
        [name |-> "--save-exact", aliases |-> <<"-E">>, requiresValue |-> FALSE],
        [name |-> "--save-bundle", aliases |-> <<"-B">>, requiresValue |-> FALSE] >>],
    [name |-> "uninstall", aliases |-> <<"remove", "rm", "r", "un", "unlink">>,
      parameters |-> <<
        [name |-> "-g", aliases |-> <<"--global">>, requiresValue |-> FALSE],
        [name |-> "--save", aliases |-> <<"-S">>, requiresValue |-> FALSE],
        [name |-> "--save-dev", aliases |-> <<"-D">>, requiresValue |-> FALSE] >>],
    [name |-> "update", aliases |-> <<"up", "upgrade">>,
      parameters |-> <<
        [name |-> "-g", aliases |-> <<"--global">>, requiresValue |-> FALSE],
        [name |-> "--save", aliases |-> <<"-S">>, requiresValue |-> FALSE] >>],
    [name |-> "list", aliases |-> <<"ls", "ll", "la">>,
      parameters |-> <<
        [name |-> "-g", aliases |-> <<"--global">>, requiresValue |-> FALSE],
        [name |-> "--depth", aliases |-> <<>>, requiresValue |-> TRUE],
        [name |-> "--json", aliases |-> <<>>, requiresValue |-> FALSE] >>],
    [name |-> "run", aliases |-> <<"run-script">>,
      parameters |-> <<
        [name |-> "--silent", aliases |-> <<>>, requiresValue |-> FALSE] >>],
    [name |-> "test", aliases |-> <<"t", "tst">>,
      parameters |-> <<>>],
    [name |-> "start", aliases |-> <<>>,
      parameters |-> <<>>],
    [name |-> "version", aliases |-> <<"v">>,
      parameters |-> <<
        [name |-> "--json", aliases |-> <<>>, requiresValue |-> FALSE] >>],
    [name |-> "publish", aliases |-> <<>>,
      parameters |-> <<
        [name |-> "--access", aliases |-> <<>>, requiresValue |-> TRUE],
        [name |-> "--tag", aliases |-> <<>>, requiresValue |-> TRUE],
        [name |-> "--dry-run", aliases |-> <<>>, requiresValue |-> FALSE] >>],
    [name |-> "unpublish", aliases |-> <<>>,
      parameters |-> <<
        [name |-> "--force", aliases |-> <<"-f">>, requiresValue |-> FALSE] >>],
    [name |-> "search", aliases |-> <<"s", "se", "find">>,
      parameters |-> <<
        [name |-> "--long", aliases |-> <<>>, requiresValue |-> FALSE],
        [name |-> "--json", aliases |-> <<>>, requiresValue |-> FALSE] >>],
    [name |-> "view", aliases |-> <<"info", "show", "v">>,
      parameters |-> <<
        [name |-> "--json", aliases |-> <<>>, requiresValue |-> FALSE] >>],
    [name |-> "outdated", aliases |-> <<>>,
      parameters |-> <<
        [name |-> "-g", aliases |-> <<"--global">>, requiresValue |-> FALSE],
        [name |-> "--json", aliases |-> <<>>, requiresValue |-> FALSE] >>],
    [name |-> "audit", aliases |-> <<>>,
      parameters |-> <<
        [name |-> "--fix", aliases |-> <<>>, requiresValue |-> FALSE],
        [name |-> "--json", aliases |-> <<>>, requiresValue |-> FALSE],
        [name |-> "--audit-level", aliases |-> <<>>, requiresValue |-> TRUE] >>],
    [name |-> "config", aliases |-> <<"c">>,
      parameters |-> <<
        [name |-> "set", aliases |-> <<>>, requiresValue |-> TRUE],
        [name |-> "get", aliases |-> <<>>, requiresValue |-> TRUE],
        [name |-> "delete", aliases |-> <<>>, requiresValue |-> TRUE],
        [name |-> "list", aliases |-> <<>>, requiresValue |-> FALSE],
        [name |-> "--global", aliases |-> <<"-g">>, requiresValue |-> FALSE] >>],
    [name |-> "cache", aliases |-> <<>>,
      parameters |-> <<
        [name |-> "clean", aliases |-> <<>>, requiresValue |-> FALSE],
        [name |-> "verify", aliases |-> <<>>, requiresValue |-> FALSE],
        [name |-> "--force", aliases |-> <<"-f">>, requiresValue |-> FALSE] >>],
    [name |-> "doctor", aliases |-> <<>>,
      parameters |-> <<>>],
    [name |-> "prune", aliases |-> <<>>,
      parameters |-> <<
        [name |-> "--production", aliases |-> <<>>, requiresValue |-> FALSE],
        [name |-> "--dry-run", aliases |-> <<>>, requiresValue |-> FALSE] >>],
    [name |-> "dedupe", aliases |-> <<"ddp">>,
      parameters |-> <<>>],
    [name |-> "link", aliases |-> <<"ln">>,
      parameters |-> <<
        [name |-> "--global", aliases |-> <<"-g">>, requiresValue |-> FALSE] >>],
    [name |-> "ci", aliases |-> <<"clean-install", "ic">>,
      parameters |-> <<>>],
    [name |-> "exec", aliases |-> <<"x">>,
      parameters |-> <<
        [name |-> "--package", aliases |-> <<"-p">>, requiresValue |-> TRUE] >>],
    [name |-> "explain", aliases |-> <<"why">>,
      parameters |-> <<>>],
    [name |-> "fund", aliases |-> <<>>,
      parameters |-> <<
        [name |-> "--json", aliases |-> <<>>, requiresValue |-> FALSE] >>],
    [name |-> "help", aliases |-> <<"?">>,
      parameters |-> <<>>],
    [name |-> "help-search", aliases |-> <<>>,
      parameters |-> <<>>],
    [name |-> "hook", aliases |-> <<>>,
      parameters |-> <<
        [name |-> "add", aliases |-> <<>>, requiresValue |-> TRUE],
        [name |-> "ls", aliases |-> <<>>, requiresValue |-> FALSE],
        [name |-> "rm", aliases |-> <<>>, requiresValue |-> TRUE] >>],
    [name |-> "org", aliases |-> <<>>,
      parameters |-> <<
        [name |-> "set", aliases |-> <<>>, requiresValue |-> TRUE],
        [name |-> "ls", aliases |-> <<>>, requiresValue |-> FALSE] >>],
    [name |-> "owner", aliases |-> <<"author">>,
      parameters |-> <<
        [name |-> "add", aliases |-> <<>>, requiresValue |-> TRUE],
        [name |-> "rm", aliases |-> <<>>, requiresValue |-> TRUE],
        [name |-> "ls", aliases |-> <<>>, requiresValue |-> FALSE] >>],
    [name |-> "pack", aliases |-> <<>>,
      parameters |-> <<
        [name |-> "--dry-run", aliases |-> <<>>, requiresValue |-> FALSE] >>],
    [name |-> "ping", aliases |-> <<>>,
      parameters |-> <<>>],
    [name |-> "prefix", aliases |-> <<>>,
      parameters |-> <<
        [name |-> "-g", aliases |-> <<"--global">>, requiresValue |-> FALSE] >>],
    [name |-> "profile", aliases |-> <<>>,
      parameters |-> <<
        [name |-> "get", aliases |-> <<>>, requiresValue |-> FALSE],
        [name |-> "set", aliases |-> <<>>, requiresValue |-> TRUE] >>],
    [name |-> "rebuild", aliases |-> <<"rb">>,
      parameters |-> <<>>],
    [name |-> "repo", aliases |-> <<>>,
      parameters |-> <<>>],
    [name |-> "restart", aliases |-> <<>>,
      parameters |-> <<>>],
    [name |-> "root", aliases |-> <<>>,
      parameters |-> <<
        [name |-> "-g", aliases |-> <<"--global">>, requiresValue |-> FALSE] >>],
    [name |-> "set-script", aliases |-> <<>>,
      parameters |-> <<>>],
    [name |-> "shrinkwrap", aliases |-> <<>>,
      parameters |-> <<>>],
    [name |-> "star", aliases |-> <<>>,
      parameters |-> <<>>],
    [name |-> "stars", aliases |-> <<>>,
      parameters |-> <<>>],
    [name |-> "stop", aliases |-> <<>>,
      parameters |-> <<>>],
    [name |-> "team", aliases |-> <<>>,
      parameters |-> <<
        [name |-> "create", aliases |-> <<>>, requiresValue |-> TRUE],
        [name |-> "destroy", aliases |-> <<>>, requiresValue |-> TRUE],
        [name |-> "add", aliases |-> <<>>, requiresValue |-> TRUE],
        [name |-> "rm", aliases |-> <<>>, requiresValue |-> TRUE],
        [name |-> "ls", aliases |-> <<>>, requiresValue |-> FALSE] >>],
    [name |-> "token", aliases |-> <<>>,
      parameters |-> <<
        [name |-> "list", aliases |-> <<>>, requiresValue |-> FALSE],
        [name |-> "create", aliases |-> <<>>, requiresValue |-> FALSE],
        [name |-> "revoke", aliases |-> <<>>, requiresValue |-> TRUE] >>],
    [name |-> "unstar", aliases |-> <<>>,
      parameters |-> <<>>],
    [name |-> "whoami", aliases |-> <<>>,
      parameters |-> <<>>],
    [name |-> "access", aliases |-> <<>>,
      parameters |-> <<
        [name |-> "public", aliases |-> <<>>, requiresValue |-> FALSE],
        [name |-> "restricted", aliases |-> <<>>, requiresValue |-> FALSE],
        [name |-> "grant", aliases |-> <<>>, requiresValue |-> TRUE],
        [name |-> "revoke", aliases |-> <<>>, requiresValue |-> TRUE] >>],
    [name |-> "adduser", aliases |-> <<"login", "add-user">>,
      parameters |-> <<
        [name |-> "--registry", aliases |-> <<>>, requiresValue |-> TRUE],
        [name |-> "--scope", aliases |-> <<>>, requiresValue |-> TRUE] >>],
    [name |-> "logout", aliases |-> <<>>,
      parameters |-> <<
        [name |-> "--registry", aliases |-> <<>>, requiresValue |-> TRUE],
        [name |-> "--scope", aliases |-> <<>>, requiresValue |-> TRUE] >>],
    [name |-> "bugs", aliases |-> <<"issues">>,
      parameters |-> <<>>],
    [name |-> "docs", aliases |-> <<"home">>,
      parameters |-> <<>>],
    [name |-> "edit", aliases |-> <<>>,
      parameters |-> <<>>],
    [name |-> "explore", aliases |-> <<>>,
      parameters |-> <<>>],
    [name |-> "diff", aliases |-> <<>>,
      parameters |-> <<>>],
    [name |-> "dist-tag", aliases |-> <<"dist-tags">>,
      parameters |-> <<
        [name |-> "add", aliases |-> <<>>, requiresValue |-> TRUE],
        [name |-> "rm", aliases |-> <<>>, requiresValue |-> TRUE],
        [name |-> "ls", aliases |-> <<>>, requiresValue |-> FALSE] >>],
    [name |-> "deprecate", aliases |-> <<>>,
      parameters |-> <<>>],
    [name |-> "completion", aliases |-> <<>>,
      parameters |-> <<>>],
    [name |-> "bin", aliases |-> <<>>,
      parameters |-> <<
        [name |-> "-g", aliases |-> <<"--global">>, requiresValue |-> FALSE] >>],
    [name |-> "pkg", aliases |-> <<>>,
      parameters |-> <<
        [name |-> "get", aliases |-> <<>>, requiresValue |-> TRUE],
        [name |-> "set", aliases |-> <<>>, requiresValue |-> TRUE],
        [name |-> "delete", aliases |-> <<>>, requiresValue |-> TRUE] >>],
    [name |-> "query", aliases |-> <<>>,
      parameters |-> <<>>],
    [name |-> "sbom", aliases |-> <<>>,
      parameters |-> <<
        [name |-> "--format", aliases |-> <<>>, requiresValue |-> TRUE] >>]
  >>

(***************************************************************************)
(* String primitives of the JavaScript runtime used by parser.ts.          *)
(***************************************************************************)
CharAt(s, i) == SubSeq(s, i, i)

\* The ASCII characters in UTF-16 code unit order (tab = 9 first; the
\* backquote, which no input of the model contains, is left out).
CharOrder ==
  "\t !\"#$%&'()*+,-./0123456789:;<=>?@ABCDEFGHIJKLMNOPQRSTUVWXYZ[\\]^_abcdefghijklmnopqrstuvwxyz{|}~"

CharCode(c) == CHOOSE i \in 1..Len(CharOrder) : CharAt(CharOrder, i) = c

UpperLetters == "ABCDEFGHIJKLMNOPQRSTUVWXYZ"

LowerLetters == "abcdefghijklmnopqrstuvwxyz"

\* String.prototype.toLowerCase on one character
toLowerChar(c) ==
  IF \E i \in 1..Len(UpperLetters) : CharAt(UpperLetters, i) = c
    THEN CharAt(LowerLetters, CHOOSE i \in 1..Len(UpperLetters) : CharAt(UpperLetters, i) = c)
    ELSE c

RECURSIVE toLowerCase(_)
toLowerCase(s) ==
  IF Len(s) = 0 THEN "" ELSE toLowerChar(Head(s)) \o toLowerCase(Tail(s))

IsWhiteSpace(c) == c = " " \/ c = "\t" \/ c = "\n" \/ c = "\r"

RECURSIVE trimStart(_)
trimStart(s) ==
  IF Len(s) > 0 /\ IsWhiteSpace(Head(s)) THEN trimStart(Tail(s)) ELSE s

RECURSIVE trimEnd(_)
trimEnd(s) ==
  IF Len(s) > 0 /\ IsWhiteSpace(CharAt(s, Len(s)))
    THEN trimEnd(SubSeq(s, 1, Len(s) - 1)) ELSE s

\* String.prototype.trim
trim(s) == trimEnd(trimStart(s))

\* String.prototype.startsWith
startsWith(s, prefix) ==
  Len(s) >= Len(prefix) /\ SubSeq(s, 1, Len(prefix)) = prefix

\* String.prototype.includes for a one-character needle
includesChar(s, c) == \E i \in 1..Len(s) : CharAt(s, i) = c

\* arg.split('=')[0]: the text before the first '='
RECURSIVE splitFirst(_, _)
splitFirst(s, c) ==
  IF Len(s) = 0 \/ Head(s) = c THEN "" ELSE Head(s) \o splitFirst(Tail(s), c)

\* Array.prototype.includes
includes(arr, x) == \E i \in 1..Len(arr) : arr[i] = x

\* The < of JavaScript on strings: lexicographic by code unit
RECURSIVE StrLess(_, _)
StrLess(a, b) ==
  IF Len(b) = 0 THEN FALSE
  ELSE IF Len(a) = 0 THEN TRUE
  ELSE IF Head(a) = Head(b) THEN StrLess(Tail(a), Tail(b))
  ELSE CharCode(Head(a)) < CharCode(Head(b))

RECURSIVE insertSorted(_, _)
insertSorted(x, sorted) ==
  IF Len(sorted) = 0 THEN <<x>>
  ELSE IF StrLess(x, Head(sorted)) THEN <<x>> \o sorted
  ELSE <<Head(sorted)>> \o insertSorted(x, Tail(sorted))

\* Mutant of sort: the copy is compared as it stands, unsorted
sort_copyOnly(arr) == arr

\* [...arr].sort(): a sorted copy, default (code unit) order
RECURSIVE sort(_)
sort(arr) ==
  IF Len(arr) = 0 THEN <<>> ELSE insertSorted(Head(arr), sort(Tail(arr)))

(***************************************************************************)
(* parser.ts                                                               *)
(***************************************************************************)
\* An optional value is <<>> (undefined / null) or <<v>>.
None == <<>>

Some(v) == <<v>>

\* normalizeCommandName's loop from catalog index k on; commands is the
\* module-level array NPM_COMMANDS the function reads
RECURSIVE normalizeCommandNameFrom(_, _, _)
normalizeCommandNameFrom(commands, inputLower, k) ==
  IF k > Len(commands) THEN None
  ELSE IF commands[k].name = inputLower THEN Some(commands[k].name)
  ELSE IF includes(commands[k].aliases, inputLower) THEN Some(commands[k].name)
  ELSE normalizeCommandNameFrom(commands, inputLower, k + 1)

normalizeCommandName(commands, input) ==
  normalizeCommandNameFrom(commands, toLowerCase(input), 1)

\* NPM_COMMANDS.find(cmd => cmd.name === name): the first entry of that name
findCommand(commands, name) ==
  commands[CHOOSE k \in 1..Len(commands) :
             /\ commands[k].name = name
             /\ \A j \in 1..(k - 1) : commands[j].name # name]

\* normalizeParameter's loop from parameter index k on
RECURSIVE normalizeParameterFrom(_, _, _, _)
normalizeParameterFrom(input, inputLower, command, k) ==
  IF k > Len(command.parameters) THEN input
  ELSE IF command.parameters[k].name = inputLower THEN command.parameters[k].name
  ELSE IF includes(command.parameters[k].aliases, inputLower) THEN command.parameters[k].name
  ELSE normalizeParameterFrom(input, inputLower, command, k + 1)

\* Mutant of normalizeParameter: an unresolved flag is returned in lower case
normalizeParameter_lowerUnknown(input, command) ==
  normalizeParameterFrom(toLowerCase(input), toLowerCase(input), command, 1)

normalizeParameter(input, command) ==
  normalizeParameterFrom(input, toLowerCase(input), command, 1)

\* Mutant of paramRequiresValue: every flag is taken to require a value
paramRequiresValue_always(normalized, arg, command) == TRUE

\* command.parameters.find(p => p.name === normalized ||
\*                              p.aliases?.includes(arg.toLowerCase()))?.requiresValue
paramRequiresValue(normalized, arg, command) ==
  LET hit(k) == \/ command.parameters[k].name = normalized
                \/ includes(command.parameters[k].aliases, toLowerCase(arg))
      hits == {k \in 1..Len(command.parameters) : hit(k)}
  IN  IF hits = {} THEN FALSE
      ELSE command.parameters[CHOOSE k \in hits : \A j \in hits : k <= j].requiresValue

\* Mutant of closesQuote: either quote character closes the open span
closesQuote_eitherQuote(char, quoteChar, inQuotes) ==
  (char = "\"" \/ char = "'") /\ inQuotes

\* char === quoteChar && inQuotes
closesQuote(char, quoteChar, inQuotes) == char = quoteChar /\ inQuotes

\* The body of smartSplit's for loop: the loop variables after the
\* character char
smartSplitStep(st, char) ==
  IF (char = "\"" \/ char = "'") /\ ~st.inQuotes
    THEN [st EXCEPT !.inQuotes = TRUE, !.quoteChar = char]
  ELSE IF closesQuote(char, st.quoteChar, st.inQuotes)
    THEN [st EXCEPT !.inQuotes = FALSE, !.quoteChar = ""]
  ELSE IF char = " " /\ ~st.inQuotes
    THEN IF st.current # ""
           THEN [st EXCEPT !.parts = Append(@, st.current), !.current = ""]
           ELSE st
  ELSE [st EXCEPT !.current = @ \o char]

\* smartSplit's for loop over the characters lo..hi, taken in order.  The
\* range is halved, and the state after the first half is bound as a value
\* before the second half is entered, only to keep the evaluation shallow
\* on long lines.
RECURSIVE smartSplitFrom(_, _, _, _)
smartSplitFrom(input, lo, hi, st) ==
  IF lo > hi THEN st
  ELSE IF lo = hi THEN smartSplitStep(st, CharAt(input, lo))
  ELSE CHOOSE after \in
         { smartSplitFrom(input, ((lo + hi) \div 2) + 1, hi, before) :
             before \in { smartSplitFrom(input, lo, (lo + hi) \div 2, st) } } : TRUE

smartSplit(input) ==
  LET st == smartSplitFrom(input, 1, Len(input),
                           [parts |-> <<>>, current |-> "", inQuotes |-> FALSE,
                            quoteChar |-> ""])
  IN  IF st.current # "" THEN Append(st.parts, st.current) ELSE st.parts

\* Mutant of InvalidCommand: the failure carries no error message
InvalidCommand_noMessage(message) ==
  [isValid |-> FALSE, command |-> None, parameters |-> <<>>,
   packageNames |-> <<>>, errorMessage |-> None]

\* The result object of parseCommand on a failure
InvalidCommand(message) ==
  [isValid |-> FALSE, command |-> None, parameters |-> <<>>,
   packageNames |-> <<>>, errorMessage |-> Some(message)]

\* A token starting with '-': the flag pushed onto parameters
flagOf(arg, command) ==
  IF includesChar(arg, "=")
    THEN normalizeParameter(splitFirst(arg, "="), command)
    ELSE normalizeParameter(arg, command)

\* Mutant of skipsValue: the next token is skipped even when it is a flag
skipsValue_evenFlags(args, i, command) ==
  /\ ~includesChar(args[i], "=")
  /\ paramRequiresValue(normalizeParameter(args[i], command), args[i], command)
  /\ i + 1 <= Len(args)

\* A token starting with '-': whether the loop skips the next token as its value
skipsValue(args, i, command) ==
  /\ ~includesChar(args[i], "=")
  /\ paramRequiresValue(normalizeParameter(args[i], command), args[i], command)
  /\ i + 1 <= Len(args)
  /\ ~startsWith(args[i + 1], "-")

\* A token not starting with '-': whether it is pushed onto packageNames
isPackageName(args, i, command) ==
  IF i > 1 /\ startsWith(args[i - 1], "-")
    THEN ~paramRequiresValue(normalizeParameter(args[i - 1], command), args[i - 1], command)
    ELSE TRUE

\* Mutant of pushParameter: a flag already in the array is not pushed again
pushParameter_unique(parameters, normalized) ==
  IF includes(parameters, normalized) THEN parameters ELSE Append(parameters, normalized)

\* parameters.push(normalized)
pushParameter(parameters, normalized) == Append(parameters, normalized)

\* parseCommand's argument loop from index i on: the two arrays it fills
RECURSIVE parseArgsFrom(_, _, _, _, _)
parseArgsFrom(args, i, command, parameters, packageNames) ==
  IF i > Len(args)
    THEN [parameters |-> parameters, packageNames |-> packageNames]
  ELSE IF startsWith(args[i], "-")
    THEN parseArgsFrom(args, IF skipsValue(args, i, command) THEN i + 2 ELSE i + 1,
                       command, pushParameter(parameters, flagOf(args[i], command)), packageNames)
  ELSE parseArgsFrom(args, i + 1, command, parameters,
                     IF isPackageName(args, i, command)
                       THEN Append(packageNames, args[i]) ELSE packageNames)

\* Mutant of startIndexOf: the program name compared as typed
startIndexOf_caseSensitive(parts) == IF parts[1] = "npm" THEN 1 ELSE 0

\* let startIndex = 0; if (parts[0].toLowerCase() === 'npm') startIndex = 1
startIndexOf(parts) == IF toLowerCase(parts[1]) = "npm" THEN 1 ELSE 0

parseCommand(commands, input) ==
  LET parts == smartSplit(trim(input)) IN
  IF Len(parts) = 0 THEN InvalidCommand("Empty command")
  ELSE LET startIndex == startIndexOf(parts) IN
    IF Len(parts) <= startIndex THEN InvalidCommand("No command specified")
    ELSE LET commandName == parts[startIndex + 1]
             normalizedCommandName == normalizeCommandName(commands, commandName) IN
      IF normalizedCommandName = None
        THEN InvalidCommand("Unknown command: " \o commandName)
        ELSE LET command == findCommand(commands, normalizedCommandName[1])
                 parsedArgs == parseArgsFrom(SubSeq(parts, startIndex + 2, Len(parts)), 1,
                                             command, <<>>, <<>>)
             IN  [isValid |-> TRUE, command |-> Some(command),
                  parameters |-> parsedArgs.parameters,
                  packageNames |-> parsedArgs.packageNames, errorMessage |-> None]

\* expected.command?.name || ''
commandNameOf(parsed) ==
  IF parsed.command = None THEN "" ELSE parsed.command[1].name

\* Mutant of shortcutCommands: restart left out of the list
shortcutCommands_noRestart == <<"test", "start", "stop">>

shortcutCommands == <<"test", "start", "stop", "restart">>

NoMatch(reason) == [matches |-> FALSE, reason |-> Some(reason)]

Match == [matches |-> TRUE, reason |-> None]

\* Mutant of shortcutAsRun: the name must be the only positional of `run`
shortcutAsRun_onlyScript(expected, actual) ==
  /\ includes(shortcutCommands, commandNameOf(expected))
  /\ commandNameOf(actual) = "run"
  /\ actual.packageNames = <<commandNameOf(expected)>>

\* expected is a shortcut command and actual is `run` carrying its name
shortcutAsRun(expected, actual) ==
  /\ includes(shortcutCommands, commandNameOf(expected))
  /\ commandNameOf(actual) = "run"
  /\ includes(actual.packageNames, commandNameOf(expected))

\* Mutant of runAsShortcut: the name may be any of the positionals of `run`
runAsShortcut_anyPositional(expected, actual) ==
  /\ commandNameOf(expected) = "run"
  /\ includes(shortcutCommands, commandNameOf(actual))
  /\ includes(expected.packageNames, commandNameOf(actual))

\* expected is `run <shortcut>` and actual is the shortcut command
runAsShortcut(expected, actual) ==
  /\ commandNameOf(expected) = "run"
  /\ Len(expected.packageNames) = 1
  /\ includes(shortcutCommands, expected.packageNames[1])
  /\ actual.command # None
  /\ actual.command[1].name = expected.packageNames[1]

\* Mutant of compareSorted: the actual list may be longer than the expected
compareSorted_atLeast(expectedSorted, actualSorted, countReason, contentReason) ==
  IF Len(expectedSorted) > Len(actualSorted) THEN Some(countReason)
  ELSE IF \E i \in 1..Len(expectedSorted) : expectedSorted[i] # actualSorted[i]
    THEN Some(contentReason)
  ELSE None

\* The comparison of two sorted copies: the first differing check, if any
compareSorted(expectedSorted, actualSorted, countReason, contentReason) ==
  IF Len(expectedSorted) # Len(actualSorted) THEN Some(countReason)
  ELSE IF \E i \in 1..Len(expectedSorted) : expectedSorted[i] # actualSorted[i]
    THEN Some(contentReason)
  ELSE None

\* Mutant of compareParameters: the lists are compared in input order
compareParameters_unsorted(expected, actual) ==
  compareSorted(expected.parameters, actual.parameters,
                "Different number of parameters", "Different parameters")

compareParameters(expected, actual) ==
  compareSorted(sort(expected.parameters), sort(actual.parameters),
                "Different number of parameters", "Different parameters")

\* Mutant of comparePackageNames: the lists are compared in input order
comparePackageNames_unsorted(expected, actual) ==
  compareSorted(expected.packageNames, actual.packageNames,
                "Different number of packages", "Different package names")

comparePackageNames(expected, actual) ==
  compareSorted(sort(expected.packageNames), sort(actual.packageNames),
                "Different number of packages", "Different package names")

\* Mutant of eitherInvalid: only the expected side is checked
eitherInvalid_expectedOnly(expected, actual) == ~expected.isValid

eitherInvalid(expected, actual) == ~expected.isValid \/ ~actual.isValid

\* expected.command?.name !== actual.command?.name (undefined when absent)
differentCommand(expected, actual) ==
  IF expected.command = None \/ actual.command = None
    THEN expected.command # actual.command
    ELSE expected.command[1].name # actual.command[1].name

\* Mutant of commandsMatch: the positionals are compared before the flags
commandsMatch_packagesFirst(expected, actual) ==
  IF eitherInvalid(expected, actual) THEN NoMatch("Invalid command")
  ELSE IF shortcutAsRun(expected, actual) THEN Match
  ELSE IF runAsShortcut(expected, actual) THEN Match
  ELSE IF differentCommand(expected, actual) THEN NoMatch("Different command")
  ELSE IF comparePackageNames(expected, actual) # None
    THEN [matches |-> FALSE, reason |-> comparePackageNames(expected, actual)]
  ELSE IF compareParameters(expected, actual) # None
    THEN [matches |-> FALSE, reason |-> compareParameters(expected, actual)]
  ELSE Match

\* The checks of commandsMatch in their order; the first that fails decides
commandsMatch(expected, actual) ==
  IF eitherInvalid(expected, actual) THEN NoMatch("Invalid command")
  ELSE IF shortcutAsRun(expected, actual) THEN Match
  ELSE IF runAsShortcut(expected, actual) THEN Match
  ELSE IF differentCommand(expected, actual) THEN NoMatch("Different command")
  ELSE IF compareParameters(expected, actual) # None
    THEN [matches |-> FALSE, reason |-> compareParameters(expected, actual)]
  ELSE IF comparePackageNames(expected, actual) # None
    THEN [matches |-> FALSE, reason |-> comparePackageNames(expected, actual)]
  ELSE Match

(***************************************************************************)
(* The input lines the engine is exercised on.                             *)
(***************************************************************************)
MaxArgs == 3

MaxFlags == 2

MaxRunArgs == 2

MaxChars == 3

\* The positionals of a line of the positional families
MaxPackages == 2

\* The entries of a catalog other than the shipped one
MaxCommands == 2

\* The calls of validateTaskCompletion in a row
MaxCalls == 2

Range(s) == {s[i] : i \in 1..Len(s)}

SeqsUpTo(S, n) == UNION {[1..m -> S] : m \in 0..n}

RECURSIVE join(_, _)
join(tokens, sep) ==
  IF Len(tokens) = 0 THEN ""
  ELSE IF Len(tokens) = 1 THEN tokens[1]
  ELSE tokens[1] \o sep \o join(Tail(tokens), sep)

\* The line "npm <tokens separated by one space>"
Line(tokens) == join(<<"npm">> \o tokens, " ")

toUpperChar(c) ==
  IF \E i \in 1..Len(LowerLetters) : CharAt(LowerLetters, i) = c
    THEN CharAt(UpperLetters, CHOOSE i \in 1..Len(LowerLetters) : CharAt(LowerLetters, i) = c)
    ELSE c

RECURSIVE toUpperCase(_)
toUpperCase(s) ==
  IF Len(s) = 0 THEN "" ELSE toUpperChar(Head(s)) \o toUpperCase(Tail(s))

Swap(pairs) == pairs \cup {<<p[2], p[1]>> : p \in pairs}

\* The scenario of the README: aliases of the command and of the flag, reordered
ConcretePairs ==
  { <<"npm install lodash express --save-dev", "npm i -D express lodash">>,
    <<"npm install lodash", "npm install express">>,
    <<"npm i lodash -g", "npm i -g lodash">>,
    <<"npm init", "npm create">> }

\* Every declared parameter alias of the catalog: <<command, parameter, alias>>
ParameterAliases ==
  UNION { UNION { { <<k, j, i>> : i \in 1..Len(NPM_COMMANDS[k].parameters[j].aliases) }
                  : j \in 1..Len(NPM_COMMANDS[k].parameters) }
          : k \in 1..Len(NPM_COMMANDS) }

\* A line with a parameter's canonical flag, and the line with a declared alias instead
FlagAliasPairs ==
  Swap({ <<Line(<<NPM_COMMANDS[t[1]].name, NPM_COMMANDS[t[1]].parameters[t[2]].name>> \o rest),
           Line(<<NPM_COMMANDS[t[1]].name, NPM_COMMANDS[t[1]].parameters[t[2]].aliases[t[3]]>> \o rest)>>
         : t \in ParameterAliases, rest \in {<<>>, <<"lodash">>} })

\* Every declared command alias of the catalog: <<command, alias>>
CommandAliases ==
  UNION { { <<k, NPM_COMMANDS[k].aliases[i]>> : i \in 1..Len(NPM_COMMANDS[k].aliases) }
          : k \in 1..Len(NPM_COMMANDS) }

\* The aliases as declared and in upper case
CommandAliasSpellings ==
  CommandAliases \cup { <<t[1], toUpperCase(t[2])>> : t \in CommandAliases }

\* A line with a command's canonical name, and the line with a declared alias instead
CommandAliasPairs ==
  Swap({ <<Line(<<NPM_COMMANDS[t[1]].name>> \o rest), Line(<<t[2]>> \o rest)>>
         : t \in CommandAliasSpellings, rest \in {<<>>, <<"lodash", "--json">>} })

\* The rearrangements of a sequence
PermutationsOf(s) ==
  { [i \in 1..Len(s) |-> s[f[i]]]
    : f \in { g \in [1..Len(s) -> 1..Len(s)] : \A i, j \in 1..Len(s) : g[i] = g[j] => i = j } }

ArgTokens == {"-g", "--depth", "--json=1", "lodash"}

\* A line of `list` or `ls`, and the line with the tokens after the command permuted
PermutedPairs ==
  UNION { { <<Line(<<name>> \o s), Line(<<name>> \o t)>> : t \in PermutationsOf(s), name \in {"list", "ls"} }
          : s \in SeqsUpTo(ArgTokens, MaxArgs) }

FlagTokens == {"-g", "--global", "--Foo"}

\* Two lines of `install` with any flags
FlagPairs ==
  { <<Line(<<"install">> \o p[1] \o <<"lodash">>), Line(<<"install", "lodash">> \o p[2])>>
    : p \in SeqsUpTo(FlagTokens, MaxFlags) \X SeqsUpTo(FlagTokens, MaxFlags) }

LifecycleNames == {"test", "start", "stop", "restart"}

\* "npm <name>" against "npm run <name>" for each lifecycle name, either way round
LifecyclePairs == Swap({ <<Line(<<name>>), Line(<<"run", name>>)>> : name \in LifecycleNames })

ShortcutLines ==
  { Line(<<name>> \o rest) : name \in {"test", "stop", "t"},
                             rest \in {<<>>, <<"--silent">>, <<"build">>} }

ScriptNames == {"test", "stop", "build"}

RunLines ==
  { Line(<<"run">> \o scripts \o rest) : scripts \in SeqsUpTo(ScriptNames, MaxRunArgs),
                                         rest \in {<<>>, <<"--silent">>} }

\* A lifecycle shortcut against `run <scripts>`, either way round
ShortcutPairs == Swap(ShortcutLines \X RunLines)

EdgeChars == {" ", "\t", "\"", "'", "t"}

RECURSIVE concat(_)
concat(chars) == IF Len(chars) = 0 THEN "" ELSE Head(chars) \o concat(Tail(chars))

\* Every line of at most MaxChars characters of EdgeChars, and some longer ones
EdgeLines ==
  { concat(chars) : chars \in SeqsUpTo(EdgeChars, MaxChars) }
    \cup { "npm", "NPM", " npm  ", "npm frobnicate", "Frobnicate -g", "npm npm",
           "npm\tinstall", "npm  install   lodash", "Npm Install lodash",
           "npm init --init-author-name=\"John Doe\"", "npm 'run' \"test", "\"npm\" test" }

AnchorLines == {"npm test", "npm frobnicate", "npm"}

\* Well-formed and malformed lines against each other
EdgePairs == Swap(AnchorLines \X EdgeLines)

\* Lines of `install` with up to MaxPackages positionals, paired each with each
PackageNameTokens == {"lodash", "express"}

PackagePairs ==
  { <<Line(<<"install">> \o p), Line(<<"install">> \o q)>> :
      p \in SeqsUpTo(PackageNameTokens, MaxPackages),
      q \in SeqsUpTo(PackageNameTokens, MaxPackages) }

\* A line against the same line with one flag supplied once more
DuplicateFlagPairs ==
  { <<"npm list --depth 0", "npm list --depth --depth 0">>,
    <<"npm install -D lodash", "npm install -D lodash -D">>,
    <<"npm install --save-dev lodash", "npm install --save-dev -D lodash">> }

\* Lines with flags that take a value, given after the flag, embedded with
\* '=' or left out, paired each with each
ValueFlagLines ==
  { "npm exec -p cowsay hello", "npm exec --package -c hello",
    "npm publish --tag beta --access public", "npm publish --tag --access public",
    "npm list --depth=1 lodash", "npm list --depth=2 lodash", "npm list --depth lodash",
    "npm install -D=1 lodash", "npm install --save-dev lodash",
    "npm init --init-author-name=\"John Doe\"", "npm init --init-author-name" }

ValueFlagPairs == ValueFlagLines \X ValueFlagLines

\* Lines of `install` with one flag the catalog does not declare, in several
\* spellings, paired each with each
UnknownFlagTokens == {"--Foo", "--foo", "--FOO", "-x"}

UnknownFlagPairs ==
  { <<Line(<<"install", x, "lodash">>), Line(<<"install", y, "lodash">>)>> :
      x \in UnknownFlagTokens, y \in UnknownFlagTokens }

\* Each line against the same line behind the program name
PrefixPairs == { <<s, "npm " \o s>> : s \in EdgeLines }

\* Lines that differ in several respects at once: in the command, in the
\* flags and in the positionals
OrderingLines ==
  { "npm install -g lodash", "npm install express", "npm install -D express",
    "npm uninstall -g lodash express", "npm uninstall", "npm frobnicate -g" }

OrderingPairs == OrderingLines \X OrderingLines

InputPairs ==
  OrderingPairs \cup ConcretePairs \cup FlagAliasPairs \cup CommandAliasPairs \cup PermutedPairs
    \cup FlagPairs \cup LifecyclePairs \cup ShortcutPairs \cup EdgePairs
    \cup PackagePairs \cup DuplicateFlagPairs \cup ValueFlagPairs
    \cup UnknownFlagPairs \cup PrefixPairs

(***************************************************************************)
(* The progress of the user (taskSystem.ts).  The tasks are modelled by    *)
(* their ids 1..NumTasks; whether an answer is correct is an input of the  *)
(* app model.                                                              *)
(***************************************************************************)

\* tasks.length
NumTasks == 2

\* The completion counts the model follows
MaxRounds == 1

\* The requests to AsyncStorage not yet served
MaxPending == 3

TaskIds == 1..NumTasks

\* tasks.map((_, index) => index + 1)
baseOrder == [i \in 1..NumTasks |-> i]

\* The default progress with sequential task order
DefaultProgress ==
  [currentTaskId |-> 1, completedTaskIds |-> <<>>, totalTasks |-> NumTasks,
   completionCount |-> 0, taskOrder |-> baseOrder]

\* Mutant of swapped: position i is overwritten, position j keeps its value
swapped_overwritten(shuffled, i, j) == [shuffled EXCEPT ![i] = shuffled[j]]

\* [shuffled[i], shuffled[j]] = [shuffled[j], shuffled[i]]
swapped(shuffled, i, j) == [shuffled EXCEPT ![i] = shuffled[j], ![j] = shuffled[i]]

\* The Fisher-Yates loop from position i down (positions from 1): every
\* outcome of Math.random
RECURSIVE shuffleFrom(_, _)
shuffleFrom(shuffled, i) ==
  IF i <= 1 THEN {shuffled}
  ELSE UNION { shuffleFrom(swapped(shuffled, i, j), i - 1) : j \in 1..i }

\* The arrays shuffleArray can return; it works on a copy of its input
shuffleArray(array) == shuffleFrom(array, Len(array))

\* Mutant of updateProgress: the id is appended whether completed or not
updateProgress_alwaysAppends(progress, completedTaskId) ==
  [progress EXCEPT !.completedTaskIds = Append(@, completedTaskId),
                   !.currentTaskId = completedTaskId + 1]

\* Update progress after completing a task
updateProgress(progress, completedTaskId) ==
  IF includes(progress.completedTaskIds, completedTaskId) THEN progress
  ELSE [progress EXCEPT !.completedTaskIds = Append(@, completedTaskId),
                        !.currentTaskId = completedTaskId + 1]

\* Math.round((completed / total) * 100)
percentageOf(completed, total) ==
  IF total > 0 THEN (200 * completed + total) \div (2 * total) ELSE 0

getProgressStats(progress) ==
  [completed |-> Len(progress.completedTaskIds), total |-> progress.totalTasks,
   percentage |-> percentageOf(Len(progress.completedTaskIds), progress.totalTasks)]

\* getInitialProgress once the stored item has been read
getInitialProgress(saved) ==
  IF saved # None /\ saved[1].totalTasks = NumTasks THEN saved[1] ELSE DefaultProgress

\* resetProgress: parsed.completionCount || 0 of the stored item
savedCompletionCount(saved) == IF saved # None THEN saved[1].completionCount ELSE 0

\* resetProgress: random order if the completion count > 0, sequential
\* otherwise
resetOrders(completionCount) ==
  IF completionCount > 0 THEN shuffleArray(baseOrder) ELSE {baseOrder}

\* The progress resetProgress writes and returns
resetProgress(completionCount, taskOrder) ==
  [currentTaskId |-> 1, completedTaskIds |-> <<>>, totalTasks |-> NumTasks,
   completionCount |-> completionCount, taskOrder |-> taskOrder]

\* The progress hardResetProgress writes and returns
hardResetProgress ==
  [currentTaskId |-> 1, completedTaskIds |-> <<>>, totalTasks |-> NumTasks,
   completionCount |-> 0, taskOrder |-> baseOrder]

\* The progress startNewRound saves and returns
startNewRound(progress, taskOrder) ==
  [currentTaskId |-> 1, completedTaskIds |-> <<>>, totalTasks |-> NumTasks,
   completionCount |-> progress.completionCount + 1, taskOrder |-> taskOrder]

\* The progress completeAllTasks saves and returns
completeAllTasks(progress, taskOrder) ==
  [currentTaskId |-> NumTasks + 1, completedTaskIds |-> baseOrder,
   totalTasks |-> NumTasks, completionCount |-> progress.completionCount + 1,
   taskOrder |-> taskOrder]

\* tasks.find(t => t.id === progress.taskOrder[progress.currentTaskId - 1]):
\* the id of the task on display, None when there is none (the completion
\* card is shown then)
currentTaskOf(progress) ==
  IF /\ progress.currentTaskId \in 1..Len(progress.taskOrder)
     /\ progress.taskOrder[progress.currentTaskId] \in TaskIds
    THEN Some(progress.taskOrder[progress.currentTaskId])
    ELSE None

(***************************************************************************)
(* The state: the command catalog (the module-level array NPM_COMMANDS),   *)
(* the two lines handed to the engine (the task's expected command and     *)
(* what the user typed), the tokens of the latest call of smartSplit,      *)
(* the two parse results, the verdict, how far the evaluation has got, and *)
(* the number of evaluations completed so far; and, of the app, the        *)
(* progress held by the component (useState), the item stored in           *)
(* AsyncStorage under 'npm-practice-progress', the requests to             *)
(* AsyncStorage not yet served (in the order of their calls), and the      *)
(* feedback line.                                                          *)
(***************************************************************************)
VARIABLES catalog, expectedInput, actualInput, parts, expected, actual, matchResult, pc,
          calls, progress, storage, requests, feedback

vars == <<catalog, expectedInput, actualInput, parts, expected, actual, matchResult, pc,
          calls, progress, storage, requests, feedback>>

engineVars ==
  <<catalog, expectedInput, actualInput, parts, expected, actual, matchResult, pc, calls>>

appVars == <<progress, storage, requests, feedback>>

\* AsyncStorage.getItem called by `by`; rendered is the progress of the
\* render in which the handler was created (the progress of its closure)
GetItem(by, rendered) ==
  [op |-> "getItem", by |-> by, value |-> None, progress |-> rendered]

\* AsyncStorage.setItem(JSON.stringify(value)) called by `by`
SetItem(by, value, rendered) ==
  [op |-> "setItem", by |-> by, value |-> Some(value), progress |-> rendered]

\* A setItem whose caller makes no further use of its closure
Save(by, value) == SetItem(by, value, value)

\* The component after its first render: the default progress, and the
\* effects of the mount in their order: getInitialProgress().then(...) has
\* called getItem, saveProgress(progress) has called setItem
AppMounted(saved) ==
  /\ progress = DefaultProgress
  /\ storage = saved
  /\ requests = << GetItem("load", DefaultProgress),
                   Save("effect", DefaultProgress) >>
  /\ feedback = ""

\* A parse result not yet computed
NotParsed ==
  [isValid |-> FALSE, command |-> None, parameters |-> <<>>,
   packageNames |-> <<>>, errorMessage |-> None]

\* A verdict not yet computed
NotCompared == [matches |-> FALSE, reason |-> None]

Init ==
  /\ catalog = NPM_COMMANDS
  /\ \E p \in InputPairs : expectedInput = p[1] /\ actualInput = p[2]
  /\ parts = <<>>
  /\ expected = NotParsed
  /\ actual = NotParsed
  /\ matchResult = NotCompared
  /\ pc = "input"
  /\ calls = 0
  /\ AppMounted(None)

\* const expectedParsed = parseCommand(task.expectedCommand), whose first
\* step is const parts = smartSplit(trimmed)
ParseExpected ==
  /\ pc = "input"
  /\ parts' = smartSplit(trim(expectedInput))
  /\ expected' = parseCommand(catalog, expectedInput)
  /\ pc' = "expected"
  /\ UNCHANGED <<catalog, expectedInput, actualInput, actual, matchResult, calls>>
  /\ UNCHANGED appVars

\* const userParsed = parseCommand(userInput)
ParseActual ==
  /\ pc = "expected"
  /\ parts' = smartSplit(trim(actualInput))
  /\ actual' = parseCommand(catalog, actualInput)
  /\ pc' = "parsed"
  /\ UNCHANGED <<catalog, expectedInput, actualInput, expected, matchResult, calls>>
  /\ UNCHANGED appVars

\* Mutant of operandAfter: the lists of the operand are sorted in place
operandAfter_sortedInPlace(parsed) ==
  [parsed EXCEPT !.parameters = sort(@), !.packageNames = sort(@)]

\* What commandsMatch leaves of an operand: it sorts copies of the two
\* lists ([...expected.parameters].sort()), so the operand is as it was
operandAfter(parsed) == parsed

\* const matchResult = commandsMatch(expectedParsed, userParsed)
CommandsMatch ==
  /\ pc = "parsed"
  /\ matchResult' = commandsMatch(expected, actual)
  /\ expected' = operandAfter(expected)
  /\ actual' = operandAfter(actual)
  /\ pc' = "done"
  /\ calls' = calls + 1
  /\ UNCHANGED <<catalog, expectedInput, actualInput, parts>>
  /\ UNCHANGED appVars

Next == ParseExpected \/ ParseActual \/ CommandsMatch

Spec == Init /\ [][Next]_vars

(***************************************************************************)
(* The same engine over other contents of the catalog array: up to         *)
(* MaxCommands entries with distinct canonical names, each with at most    *)
(* one alias, which may be the canonical name of another entry.            *)
(***************************************************************************)
CatalogNames == {"ci", "it"}

CatalogEntries ==
  { [name |-> n, aliases |-> al, parameters |-> <<>>] :
      n \in CatalogNames, al \in SeqsUpTo(CatalogNames \cup {"x"}, 1) }

Catalogs ==
  { c \in SeqsUpTo(CatalogEntries, MaxCommands) :
      \A i, j \in 1..Len(c) : c[i].name = c[j].name => i = j }

CatalogLines == {"npm ci", "npm it", "npm IT", "npm x", "npm y"}

InitCatalog ==
  /\ catalog \in Catalogs
  /\ expectedInput \in CatalogLines
  /\ actualInput = "npm ci"
  /\ parts = <<>>
  /\ expected = NotParsed
  /\ actual = NotParsed
  /\ matchResult = NotCompared
  /\ pc = "input"
  /\ calls = 0
  /\ AppMounted(None)

SpecCatalog == InitCatalog /\ [][Next]_vars

(***************************************************************************)
(* The tokenizer on its own: smartSplit applied to a line as it is, not    *)
(* trimmed first.                                                          *)
(***************************************************************************)
InitSplit ==
  /\ catalog = NPM_COMMANDS
  /\ expectedInput \in EdgeLines
  /\ actualInput = ""
  /\ parts = <<>>
  /\ expected = NotParsed
  /\ actual = NotParsed
  /\ matchResult = NotCompared
  /\ pc = "split"
  /\ calls = 0
  /\ AppMounted(None)

\* const parts = smartSplit(input)
SmartSplit ==
  /\ pc = "split"
  /\ parts' = smartSplit(expectedInput)
  /\ pc' = "tokens"
  /\ UNCHANGED <<catalog, expectedInput, actualInput, expected, actual, matchResult, calls>>
  /\ UNCHANGED appVars

SpecSplit == InitSplit /\ [][SmartSplit]_vars

(***************************************************************************)
(* Several evaluations one after the other, as handleSubmit makes them:    *)
(* each call of validateTaskCompletion starts from fresh locals.           *)
(***************************************************************************)
InitCalls ==
  /\ catalog = NPM_COMMANDS
  /\ \E p \in ValueFlagPairs : expectedInput = p[1] /\ actualInput = p[2]
  /\ parts = <<>>
  /\ expected = NotParsed
  /\ actual = NotParsed
  /\ matchResult = NotCompared
  /\ pc = "input"
  /\ calls = 0
  /\ AppMounted(None)

\* The next call of validateTaskCompletion(task, userInput)
NextCall ==
  /\ pc = "done"
  /\ calls < MaxCalls
  /\ \E p \in ValueFlagPairs : expectedInput' = p[1] /\ actualInput' = p[2]
  /\ parts' = <<>>
  /\ expected' = NotParsed
  /\ actual' = NotParsed
  /\ matchResult' = NotCompared
  /\ pc' = "input"
  /\ UNCHANGED <<catalog, calls>>
  /\ UNCHANGED appVars

NextCalls == ParseExpected \/ ParseActual \/ CommandsMatch \/ NextCall

SpecCalls == InitCalls /\ [][NextCalls]_vars

(***************************************************************************)
(* Vocabulary of the properties.                                           *)
(***************************************************************************)
\* The tokens parseCommand works on
tokensOf(input) == smartSplit(trim(input))

\* The position of the command token among the tokens (0 when there is none)
commandIndex(tokens) ==
  IF Len(tokens) = 0 THEN 0
  ELSE IF toLowerCase(tokens[1]) = "npm" THEN (IF Len(tokens) >= 2 THEN 2 ELSE 0)
  ELSE 1

\* The tokens after the command token
argsOf(tokens) == SubSeq(tokens, commandIndex(tokens) + 1, Len(tokens))

Parsed == pc \in {"parsed", "done"}

Compared == pc = "done"

\* C1: with the shipped catalog, "npm i -D express lodash" matches the expected
\* command "npm install lodash express --save-dev".
C1_ConcreteScenarioMatches ==
  (/\ Compared
   /\ expectedInput = "npm install lodash express --save-dev"
   /\ actualInput = "npm i -D express lodash")
    => matchResult.matches

\* The actual line is the expected line with one or more canonical flags of
\* the resolved command replaced by a declared alias of the same parameter.
FlagAliasSubstituted ==
  LET te == tokensOf(expectedInput)
      ta == tokensOf(actualInput)
      c  == commandIndex(te)
      ps == expected.command[1].parameters
      aliasAt(i) == \E j \in 1..Len(ps) : te[i] = ps[j].name /\ ta[i] \in Range(ps[j].aliases)
  IN  /\ expected.isValid
      /\ Len(te) = Len(ta)
      /\ commandIndex(ta) = c
      /\ \A i \in 1..c : te[i] = ta[i]
      /\ \A i \in (c + 1)..Len(te) : te[i] = ta[i] \/ aliasAt(i)
      /\ \E i \in (c + 1)..Len(te) : aliasAt(i)

\* C2: replacing a parameter's canonical flag by any of its declared aliases
\* leaves the flag list of the parse unchanged, hence the line still matches.
C2_FlagAliasInvariance ==
  (Parsed /\ FlagAliasSubstituted)
    => /\ actual.parameters = expected.parameters
       /\ Compared => matchResult.matches

\* One line spells the command with its canonical name, the other with a
\* declared alias of that command in any letter case; all else is the same.
CommandAliasSubstituted(canonicalInput, aliasInput) ==
  LET tc == tokensOf(canonicalInput)
      ta == tokensOf(aliasInput)
      c  == commandIndex(tc)
  IN  /\ c > 0
      /\ Len(tc) = Len(ta)
      /\ commandIndex(ta) = c
      /\ \A i \in 1..Len(tc) : i # c => tc[i] = ta[i]
      /\ \E k \in 1..Len(NPM_COMMANDS) :
           /\ tc[c] = NPM_COMMANDS[k].name
           /\ toLowerCase(ta[c]) \in Range(NPM_COMMANDS[k].aliases)

\* C3: a line with the canonical command name and the same line with a
\* declared alias of that command resolve to the same command and match,
\* whichever of the two is the expected one.
C3_CommandAliasInvariance ==
  (/\ Parsed
   /\ \/ CommandAliasSubstituted(expectedInput, actualInput)
      \/ CommandAliasSubstituted(actualInput, expectedInput))
    => /\ expected.isValid /\ actual.isValid
       /\ actual.command = expected.command
       /\ Compared => matchResult.matches

SameMultiset(s, t) ==
  /\ Len(s) = Len(t)
  /\ \A x \in Range(s) \cup Range(t) :
       Cardinality({i \in 1..Len(s) : s[i] = x}) = Cardinality({i \in 1..Len(t) : t[i] = x})

\* The actual line is the expected line with the tokens after the command
\* token in another order.
ArgsPermuted ==
  LET te == tokensOf(expectedInput)
      ta == tokensOf(actualInput)
      c  == commandIndex(te)
  IN  /\ c > 0
      /\ commandIndex(ta) = c
      /\ \A i \in 1..c : te[i] = ta[i]
      /\ SameMultiset(argsOf(te), argsOf(ta))

\* C4 as claimed: every permutation of the tokens after the command of a
\* valid line matches the original line.
C4_OrderIndependence ==
  (Compared /\ expected.isValid /\ ArgsPermuted) => matchResult.matches

\* A flag written without '=' whose resolved parameter requires a value
TakesValue(token, command) ==
  /\ startsWith(token, "-")
  /\ ~includesChar(token, "=")
  /\ \E j \in 1..Len(command.parameters) :
       /\ command.parameters[j].requiresValue
       /\ \/ command.parameters[j].name = toLowerCase(token)
          \/ toLowerCase(token) \in Range(command.parameters[j].aliases)

\* No token after the command of the expected line is such a flag
NoValueFlag ==
  /\ expected.isValid
  /\ \A i \in 1..Len(argsOf(tokensOf(expectedInput))) :
       ~TakesValue(argsOf(tokensOf(expectedInput))[i], expected.command[1])

\* C4 amended: when no token of a valid line is a flag (without '=') whose
\* parameter requires a value, every permutation of the tokens after the
\* command matches the original line.
C4_OrderIndependenceWithoutValueFlags ==
  (Compared /\ expected.isValid /\ ArgsPermuted /\ NoValueFlag) => matchResult.matches

\* Two flags and a positional, reordered, matched
C4_Witness ==
  /\ Compared /\ ArgsPermuted /\ NoValueFlag
  /\ tokensOf(expectedInput) # tokensOf(actualInput)
  /\ Len(expected.parameters) = 2 /\ expected.parameters[1] # expected.parameters[2]
  /\ Len(expected.packageNames) = 1
  /\ actual.parameters # expected.parameters
  /\ matchResult.matches

\* C5: for each of test, start, stop, restart, "npm <name>" and
\* "npm run <name>" match each other in both directions.
C5_ShortcutSymmetry ==
  \A name \in LifecycleNames :
    (/\ Compared
     /\ \/ expectedInput = "npm " \o name /\ actualInput = "npm run " \o name
        \/ expectedInput = "npm run " \o name /\ actualInput = "npm " \o name)
      => matchResult = [matches |-> TRUE, reason |-> None]

C5_Witness ==
  /\ Compared
  /\ expectedInput = "npm run restart" /\ actualInput = "npm restart"
  /\ expected.command[1].name = "run" /\ expected.packageNames = <<"restart">>
  /\ actual.command[1].name = "restart"
  /\ matchResult.matches

\* The names and aliases of the commands of the catalog
CommandSpellings ==
  UNION { {NPM_COMMANDS[k].name} \cup Range(NPM_COMMANDS[k].aliases) : k \in 1..Len(NPM_COMMANDS) }

\* Whether a token names a command of the catalog, canonically or by alias
KnownCommand(token) == toLowerCase(token) \in CommandSpellings

Fails(parsed, message) ==
  /\ ~parsed.isValid
  /\ parsed.errorMessage = <<message>>

\* The outcome the claim assigns to a line, by its tokens
ClassifiedByTokens(input, parsed) ==
  LET tokens == tokensOf(input) IN
  IF Len(tokens) = 0 THEN Fails(parsed, "Empty command")
  ELSE IF Len(tokens) = 1 /\ toLowerCase(tokens[1]) = "npm"
    THEN Fails(parsed, "No command specified")
  ELSE IF ~KnownCommand(tokens[commandIndex(tokens)])
    THEN Fails(parsed, "Unknown command: " \o tokens[commandIndex(tokens)])
  ELSE parsed.isValid /\ parsed.errorMessage = None

\* Lines without any token: empty, blank, or an empty quoted span
ZeroTokenLines == {"", " ", "  ", " \t ", "\"\"", "''", " '' ", "\"\"''"}

\* C6: parseCommand fails with the empty-command error on a line without
\* tokens, with the missing-command error on a line whose only token is npm,
\* with the unknown-command error carrying the token when the command token
\* is no name or alias of the catalog, and succeeds on every other line.
C6_FailureClassification ==
  /\ pc # "input" => /\ ClassifiedByTokens(expectedInput, expected)
                     /\ expectedInput \in ZeroTokenLines => Fails(expected, "Empty command")
  /\ Parsed => /\ ClassifiedByTokens(actualInput, actual)
               /\ actualInput \in ZeroTokenLines => Fails(actual, "Empty command")

C6_Witness ==
  /\ Parsed
  /\ expectedInput = "npm" /\ Fails(expected, "No command specified")
  /\ actualInput = "''" /\ Fails(actual, "Empty command")

\* C7: whenever either operand is invalid, commandsMatch returns no match
\* with the invalid-command reason, whatever else the operands hold.
C7_InvalidOperandNoMatch ==
  (Compared /\ (~expected.isValid \/ ~actual.isValid))
    => /\ matchResult.matches = FALSE
       /\ Len(matchResult.reason) = 1
       /\ toLowerCase(matchResult.reason[1]) = "invalid command"

C7_Witness ==
  /\ Compared
  /\ expected.isValid /\ commandNameOf(expected) = "test"
  /\ ~actual.isValid /\ actual.errorMessage = <<"Unknown command: frobnicate">>
  /\ matchResult = [matches |-> FALSE, reason |-> <<"Invalid command">>]

BothValid == Compared /\ expected.isValid /\ actual.isValid

\* The canonical name of the command a valid parse resolved to
ResolvedName(parsed) == parsed.command[1].name

\* C8: when expected is one of test/start/stop/restart and actual is run
\* with that name anywhere among its positionals, commandsMatch returns a
\* match, whatever the flags and the other positionals of either side.
C8_ShortcutAsRun ==
  (/\ BothValid
   /\ ResolvedName(expected) \in LifecycleNames
   /\ ResolvedName(actual) = "run"
   /\ ResolvedName(expected) \in Range(actual.packageNames))
    => matchResult = [matches |-> TRUE, reason |-> None]

\* `stop --silent` against `run build stop`: other flags, other positionals
C8_Witness ==
  /\ BothValid
  /\ ResolvedName(expected) = "stop" /\ expected.parameters = <<"--silent">>
  /\ ResolvedName(actual) = "run" /\ actual.packageNames = <<"build", "stop">>
  /\ actual.parameters = <<>>
  /\ matchResult.matches

\* C9: when expected is run with exactly one positional that is one of
\* test/start/stop/restart and actual is that command, commandsMatch returns
\* a match; when expected's run has zero or several positionals the pair is
\* rejected as a different command.
C9_RunAsShortcut ==
  (/\ BothValid
   /\ ResolvedName(expected) = "run"
   /\ ResolvedName(actual) \in LifecycleNames)
    => /\ expected.packageNames = <<ResolvedName(actual)>>
            => matchResult = [matches |-> TRUE, reason |-> None]
       /\ Len(expected.packageNames) # 1
            => /\ matchResult.matches = FALSE
               /\ Len(matchResult.reason) = 1
               /\ toLowerCase(matchResult.reason[1]) = "different command"

\* `run stop --silent` against `stop build`
C9_Witness ==
  /\ BothValid
  /\ ResolvedName(expected) = "run" /\ expected.packageNames = <<"stop">>
  /\ expected.parameters = <<"--silent">>
  /\ ResolvedName(actual) = "stop" /\ actual.packageNames = <<"build">>
  /\ matchResult.matches

\* Two valid parses of the same command
SameCommand == BothValid /\ ResolvedName(expected) = ResolvedName(actual)

\* The verdict is a match or a rejection by the check of the positionals
PassesFlagCheck ==
  \/ matchResult.matches
  \/ /\ Len(matchResult.reason) = 1
     /\ toLowerCase(matchResult.reason[1])
          \in {"different number of packages", "different package names"}

\* The reason of a rejection by the flag check
FlagReason ==
  IF Len(expected.parameters) # Len(actual.parameters)
    THEN "different number of parameters" ELSE "different parameters"

RejectedByFlagCheck ==
  /\ matchResult.matches = FALSE
  /\ Len(matchResult.reason) = 1
  /\ toLowerCase(matchResult.reason[1]) = FlagReason

C11_PositionalMultisetComparison ==
  (SameCommand /\ SameMultiset(expected.parameters, actual.parameters))
    => IF SameMultiset(expected.packageNames, actual.packageNames)
         THEN matchResult = [matches |-> TRUE, reason |-> None]
         ELSE /\ matchResult.matches = FALSE
              /\ Len(matchResult.reason) = 1
              /\ toLowerCase(matchResult.reason[1]) =
                   IF Len(expected.packageNames) # Len(actual.packageNames)
                     THEN "different number of packages"
                     ELSE "different package names"

\* `install lodash express` against `install express lodash`: a match
C11_Witness ==
  /\ SameCommand
  /\ expected.parameters = <<>> /\ actual.parameters = <<>>
  /\ expected.packageNames = <<"lodash", "express">>
  /\ actual.packageNames = <<"express", "lodash">>
  /\ matchResult.matches

\* `install lodash` against `install express`: rejected for the names
C11_WitnessDifferentNames ==
  /\ SameCommand
  /\ expected.packageNames = <<"lodash">> /\ actual.packageNames = <<"express">>
  /\ matchResult = [matches |-> FALSE, reason |-> <<"Different package names">>]

\* The tokens of args that start with '-', and those that do not
DashTokens(args) == SelectSeq(args, LAMBDA t : startsWith(t, "-"))

PlainTokens(args) == SelectSeq(args, LAMBDA t : ~startsWith(t, "-"))

\* Two tokens spell the same flag of the command: the same token, or the
\* name or an alias of one parameter, whatever the letter case
SameFlag(x, y, command) ==
  \/ x = y
  \/ \E j \in 1..Len(command.parameters) :
       LET spellings == {command.parameters[j].name}
                          \cup {toLowerCase(a) : a \in Range(command.parameters[j].aliases)}
       IN  toLowerCase(x) \in spellings /\ toLowerCase(y) \in spellings

\* s without its i-th element
RemoveAt(s, i) == SubSeq(s, 1, i - 1) \o SubSeq(s, i + 1, Len(s))

\* The actual line is the expected line with one of its flags supplied once
\* more (spelled the same way or as another spelling of the same parameter).
FlagDuplicated ==
  LET te == tokensOf(expectedInput)
      ta == tokensOf(actualInput)
      c  == commandIndex(te)
      de == DashTokens(argsOf(te))
      da == DashTokens(argsOf(ta))
  IN  /\ expected.isValid /\ actual.isValid
      /\ commandIndex(ta) = c
      /\ \A i \in 1..c : te[i] = ta[i]
      /\ SameMultiset(PlainTokens(argsOf(te)), PlainTokens(argsOf(ta)))
      /\ \E i \in 1..Len(da) :
           /\ SameMultiset(RemoveAt(da, i), de)
           /\ \E k \in 1..Len(de) : SameFlag(da[i], de[k], expected.command[1])

C13_CanonicalNameWins ==
  LET tokens == tokensOf(expectedInput)
      c == commandIndex(tokens)
  IN  (/\ pc # "input"
       /\ c > 0
       /\ \E k \in 1..Len(catalog) : catalog[k].name = toLowerCase(tokens[c]))
        => /\ expected.isValid
           /\ expected.command[1].name = toLowerCase(tokens[c])

\* The i-th token after the command is the value of the flag before it: it
\* does not start with '-' and immediately follows a flag written without
\* '=' whose parameter requires a value
IsValueAt(args, i, command) ==
  /\ i > 1
  /\ ~startsWith(args[i], "-")
  /\ TakesValue(args[i - 1], command)

\* The tokens from index i on that are neither flags nor values, in order
RECURSIVE PositionalsFrom(_, _, _)
PositionalsFrom(args, i, command) ==
  IF i > Len(args) THEN <<>>
  ELSE (IF ~startsWith(args[i], "-") /\ ~IsValueAt(args, i, command)
          THEN <<args[i]>> ELSE <<>>) \o PositionalsFrom(args, i + 1, command)

\* (At pc = "expected" the expected line has just been parsed and parts
\* holds its tokens.)
\* C14: in a valid parse every token after the command that starts with '-'
\* is recorded as one flag; a token not starting with '-' right after a flag
\* without '=' whose parameter requires a value is in neither list; every
\* other token not starting with '-' is a positional, in input order.
C14_ArgumentClassification ==
  (pc = "expected" /\ expected.isValid)
    => LET args == argsOf(parts) IN
       /\ Len(expected.parameters) = Len(DashTokens(args))
       /\ \A j \in 1..Len(expected.parameters) : startsWith(expected.parameters[j], "-")
       /\ expected.packageNames = PositionalsFrom(args, 1, expected.command[1])

\* `list --depth lodash lodash`: a flag, its value, a positional
C14_Witness ==
  /\ pc = "expected"
  /\ expectedInput = "npm list --depth lodash lodash"
  /\ expected.isValid
  /\ expected.parameters = <<"--depth">>
  /\ expected.packageNames = <<"lodash">>

\* The i-th token after the command is a flag without '=' whose parameter
\* requires a value, and no value follows it: it is the last token or the
\* next token starts with '-'
ValueOmittedAt(args, i, command) ==
  /\ TakesValue(args[i], command)
  /\ i = Len(args) \/ startsWith(args[i + 1], "-")

\* C15: a line with a known command in which such a flag has no value after
\* it is still valid; the flag takes no token as its value, and the token
\* after it, if any, is recorded as a flag of its own, right after it in
\* the flags of the parse.
C15_OmittedValueLeniency ==
  LET tokens == parts
      args == argsOf(tokens)
  IN  (/\ pc = "expected"
       /\ commandIndex(tokens) > 0
       /\ KnownCommand(tokens[commandIndex(tokens)]))
        => /\ expected.isValid
           /\ \A i \in 1..Len(args) :
                ValueOmittedAt(args, i, expected.command[1])
                  => LET j == Len(DashTokens(SubSeq(args, 1, i))) IN
                     /\ Len(expected.parameters) = Len(DashTokens(args))
                     /\ SameFlag(expected.parameters[j], args[i], expected.command[1])
                     /\ i < Len(args)
                          => SameFlag(expected.parameters[j + 1],
                                      splitFirst(args[i + 1], "="), expected.command[1])
           /\ (\A i \in 1..Len(args) :
                 TakesValue(args[i], expected.command[1])
                   => ValueOmittedAt(args, i, expected.command[1]))
                => expected.packageNames = PlainTokens(args)

\* `list --depth -g lodash`: --depth without a value, -g a flag of its own
C15_Witness ==
  /\ pc = "expected"
  /\ expectedInput = "npm list --depth -g lodash"
  /\ ValueOmittedAt(argsOf(parts), 1, expected.command[1])
  /\ expected.isValid
  /\ expected.parameters = <<"--depth", "-g">>
  /\ expected.packageNames = <<"lodash">>

\* `list lodash --depth`: the flag is the last token
C15_WitnessLastToken ==
  /\ pc = "expected"
  /\ expectedInput = "npm list lodash --depth"
  /\ ValueOmittedAt(argsOf(parts), 2, expected.command[1])
  /\ expected.isValid
  /\ expected.parameters = <<"--depth">>
  /\ expected.packageNames = <<"lodash">>

\* The canonical flag a spelling stands for in the command: the name of the
\* first parameter that has it as its name or as an alias, whatever the
\* letter case; the spelling itself when there is none
CanonicalFlag(text, command) ==
  LET hits == { j \in 1..Len(command.parameters) :
                  \/ command.parameters[j].name = toLowerCase(text)
                  \/ toLowerCase(text) \in
                       {toLowerCase(a) : a \in Range(command.parameters[j].aliases)} }
  IN  IF hits = {} THEN text
      ELSE command.parameters[CHOOSE j \in hits : \A k \in hits : j <= k].name

\* A token starting with '-' that contains '='
HasEmbeddedValue(token) == startsWith(token, "-") /\ includesChar(token, "=")

\* The two lines differ at most in the text after the first '=' of such tokens
ValueTextDiffers ==
  LET te == tokensOf(expectedInput)
      ta == tokensOf(actualInput)
  IN  /\ Len(te) = Len(ta)
      /\ \A i \in 1..Len(te) :
           \/ te[i] = ta[i]
           \/ /\ HasEmbeddedValue(te[i]) /\ HasEmbeddedValue(ta[i])
              /\ splitFirst(te[i], "=") = splitFirst(ta[i], "=")
      /\ \E i \in 1..Len(te) : te[i] # ta[i]

\* What a token with an embedded value contributes to a valid parse, given
\* the flag the text before its '=' should be recorded as: that one flag at
\* the token's place among the flags, no positional, and the token after it
\* is not taken as a value.
EmbeddedValueContributes(flagFor(_, _)) ==
  LET args == argsOf(tokensOf(expectedInput)) IN
  /\ Len(expected.parameters) = Len(DashTokens(args))
  /\ expected.packageNames = PositionalsFrom(args, 1, expected.command[1])
  /\ \A i \in 1..Len(args) :
       HasEmbeddedValue(args[i])
         => /\ expected.parameters[Len(DashTokens(SubSeq(args, 1, i)))]
                 = flagFor(splitFirst(args[i], "="), expected.command[1])
            /\ (i < Len(args) /\ ~startsWith(args[i + 1], "-"))
                 => args[i + 1] \in Range(expected.packageNames)

\* C16: a token starting with '-' that contains '=' contributes exactly one
\* flag, the canonical flag of the text before the first '=', and no
\* positional; the token after it is not consumed as a value; and two lines
\* that differ only in the value text match.
C16_EmbeddedValues ==
  /\ (pc # "input" /\ expected.isValid) => EmbeddedValueContributes(CanonicalFlag)
  /\ (Compared /\ expected.isValid /\ ValueTextDiffers) => matchResult.matches

\* What holds of C16 whatever the alias: the flag recorded for the token is
\* the one the resolver gives for the text before the first '=', and the
\* rest of C16 as stated.
C16_EmbeddedValuesAsResolved ==
  /\ (pc # "input" /\ expected.isValid) => EmbeddedValueContributes(normalizeParameter)
  /\ (Compared /\ expected.isValid /\ ValueTextDiffers) => matchResult.matches

\* The quoted value with a space: one flag, no positional
C16_QuotedValueReached ==
  /\ pc # "input"
  /\ expectedInput = "npm init --init-author-name=\"John Doe\""
  /\ expected.isValid
  /\ expected.parameters = <<"--init-author-name">>
  /\ expected.packageNames = <<>>

\* A token starting with '-', without '=', that is no name and no alias of
\* a parameter of the command, whatever the letter case
UnknownFlag(token, command) ==
  /\ startsWith(token, "-")
  /\ ~includesChar(token, "=")
  /\ CanonicalFlag(token, command) = token
  /\ \A j \in 1..Len(command.parameters) : command.parameters[j].name # token

\* The two lines differ in the spelling of exactly one token, which is such
\* a flag on both sides
UnknownFlagSpellingDiffers ==
  LET te == tokensOf(expectedInput)
      ta == tokensOf(actualInput)
  IN  /\ Len(te) = Len(ta)
      /\ Cardinality({i \in 1..Len(te) : te[i] # ta[i]}) = 1
      /\ \A i \in 1..Len(te) :
           te[i] # ta[i]
             => /\ i > commandIndex(te)
                /\ UnknownFlag(te[i], expected.command[1])
                /\ UnknownFlag(ta[i], expected.command[1])

\* C17: a flag the resolved command does not declare never makes the parse
\* invalid; it is recorded in the flags exactly as typed, spelling and
\* letter case included, so two lines that differ only in the spelling of
\* such a flag do not match.
C17_UnknownFlagsVerbatim ==
  LET tokens == parts
      args == argsOf(tokens)
  IN  /\ (pc = "expected" /\ commandIndex(tokens) > 0 /\ KnownCommand(tokens[commandIndex(tokens)]))
           => /\ expected.isValid
              /\ \A i \in 1..Len(args) :
                   UnknownFlag(args[i], expected.command[1])
                     => /\ Len(expected.parameters) = Len(DashTokens(args))
                        /\ expected.parameters[Len(DashTokens(SubSeq(args, 1, i)))] = args[i]
      /\ (Compared /\ expected.isValid /\ UnknownFlagSpellingDiffers)
           => matchResult.matches = FALSE

\* `install --Foo lodash` against `install --foo lodash`
C17_Witness ==
  /\ Compared /\ UnknownFlagSpellingDiffers
  /\ expected.isValid /\ actual.isValid
  /\ expected.parameters = <<"--Foo">>
  /\ actual.parameters = <<"--foo">>
  /\ matchResult = [matches |-> FALSE, reason |-> <<"Different parameters">>]

\* The position of the first quote character of input at or after i, or 0
FirstQuoteFrom(input, i) ==
  LET quotes == {j \in i..Len(input) : CharAt(input, j) \in {"\"", "'"}} IN
  IF quotes = {} THEN 0 ELSE CHOOSE j \in quotes : \A k \in quotes : j <= k

\* The position of the quote that closes the span opened at o: the next
\* occurrence of the same character, or one past the end when there is none
CloseOf(input, o) ==
  LET closes == {j \in (o + 1)..Len(input) : CharAt(input, j) = CharAt(input, o)} IN
  IF closes = {} THEN Len(input) + 1 ELSE CHOOSE j \in closes : \A k \in closes : j <= k

\* The quoted spans of input from position i on, as pairs <<open, close>>
RECURSIVE QuoteSpans(_, _)
QuoteSpans(input, i) ==
  LET o == FirstQuoteFrom(input, i) IN
  IF o = 0 THEN {}
  ELSE {<<o, CloseOf(input, o)>>} \cup QuoteSpans(input, CloseOf(input, o) + 1)

\* The positions of the quote characters that open or close a span
Delimiters(input) ==
  {sp[1] : sp \in QuoteSpans(input, 1)}
    \cup {sp[2] : sp \in {x \in QuoteSpans(input, 1) : x[2] <= Len(input)}}

\* The positions outside every span that hold one of the separator characters
Separators(input, blanks) ==
  { j \in 1..Len(input) :
      /\ CharAt(input, j) \in blanks
      /\ \A sp \in QuoteSpans(input, 1) : j < sp[1] \/ j > sp[2] }

\* The characters of input at the positions a..b that are not in drop
RECURSIVE KeptChars(_, _, _, _)
KeptChars(input, a, b, drop) ==
  IF a > b THEN ""
  ELSE (IF a \in drop THEN "" ELSE CharAt(input, a)) \o KeptChars(input, a + 1, b, drop)

\* The tokens of input from position a on by the rules of the tokenizer's
\* description: the line is cut at each maximal run of separators, the
\* delimiters are dropped from each piece, and empty pieces are left out
RECURSIVE TokensFrom(_, _, _, _)
TokensFrom(input, a, seps, delims) ==
  IF a > Len(input) THEN <<>>
  ELSE IF a \in seps THEN TokensFrom(input, a + 1, seps, delims)
  ELSE LET ends == {j \in a..Len(input) : j + 1 > Len(input) \/ (j + 1) \in seps}
           b == CHOOSE j \in ends : \A k \in ends : j <= k
           token == KeptChars(input, a, b, delims)
       IN  (IF token = "" THEN <<>> ELSE <<token>>) \o TokensFrom(input, b + 1, seps, delims)

TokensSplitAt(input, blanks) ==
  TokensFrom(input, 1, Separators(input, blanks), Delimiters(input))

\* C18: for every input string the tokenizer cuts the line at each maximal
\* run of unquoted whitespace, spaces and tabs alike, never gives an empty
\* token, and gives no token for an empty or all-whitespace input.
C18_TokenizerSplitting ==
  pc = "tokens"
    => /\ parts = TokensSplitAt(expectedInput, {" ", "\t"})
       /\ \A k \in 1..Len(parts) : parts[k] # ""
       /\ (\A j \in 1..Len(expectedInput) : CharAt(expectedInput, j) \in {" ", "\t"})
            => parts = <<>>

\* What holds of C18: the same with the space as the only separator
C18_TokenizerSplittingAtSpaces ==
  pc = "tokens"
    => /\ parts = TokensSplitAt(expectedInput, {" "})
       /\ \A k \in 1..Len(parts) : parts[k] # ""

\* x occurs in s as a run of consecutive characters
OccursIn(x, s) ==
  \E a \in 1..(Len(s) - Len(x) + 1) : SubSeq(s, a, a + Len(x) - 1) = x

\* s without its spaces and tabs
RECURSIVE WithoutBlanks(_)
WithoutBlanks(s) ==
  IF Len(s) = 0 THEN ""
  ELSE (IF Head(s) \in {" ", "\t"} THEN "" ELSE Head(s)) \o WithoutBlanks(Tail(s))

\* C19: the text of a quoted span, from after its opening quote to before
\* the same character that closes it or, without one, to the end of the
\* input, is kept whole in one token, whitespace and the other kind of quote
\* included; the quote characters that open and close the spans are in no
\* token and every other character that is not whitespace is in one, in
\* input order; and the tokenizer always returns a sequence of tokens.
C19_TokenizerQuoting ==
  pc = "tokens"
    => /\ parts \in Seq(STRING)
       /\ \A sp \in QuoteSpans(expectedInput, 1) :
            sp[2] > sp[1] + 1
              => \E k \in 1..Len(parts) :
                   OccursIn(SubSeq(expectedInput, sp[1] + 1, sp[2] - 1), parts[k])
       /\ WithoutBlanks(concat(parts))
            = WithoutBlanks(KeptChars(expectedInput, 1, Len(expectedInput),
                                      Delimiters(expectedInput)))

\* `npm 'run' "test`: a closed span and an unterminated one
C19_Witness ==
  /\ pc = "tokens"
  /\ expectedInput = "npm 'run' \"test"
  /\ QuoteSpans(expectedInput, 1) = {<<5, 9>>, <<11, 16>>}
  /\ parts = <<"npm", "run", "test">>

\* A quoted space, kept in the token
C19_WitnessQuotedSpace ==
  /\ pc = "tokens"
  /\ expectedInput = "' t"
  /\ parts = <<" t">>

\* The other kind of quote inside a span, kept in the token
C19_WitnessOtherQuote ==
  /\ pc = "tokens"
  /\ expectedInput = "\"'\""
  /\ parts = <<"'">>

\* The actual line is "npm " followed by the expected line, whose first
\* token is not the program name
ProgramNamePrefixed ==
  LET te == tokensOf(expectedInput) IN
  /\ actualInput = "npm " \o expectedInput
  /\ Len(te) > 0
  /\ toLowerCase(te[1]) # "npm"

\* C20: for every line s whose first token is not npm, in any letter case,
\* parseCommand("npm " + s) and parseCommand(s) return the same result; and
\* only the first token is dropped as the program name, so in a line with a
\* second npm token that token is the command token.
C20_ProgramNamePrefix ==
  /\ (Parsed /\ ProgramNamePrefixed) => actual = expected
  /\ (pc # "input" /\ Len(tokensOf(expectedInput)) >= 2
        /\ toLowerCase(tokensOf(expectedInput)[1]) = "npm"
        /\ toLowerCase(tokensOf(expectedInput)[2]) = "npm")
       => Fails(expected, "Unknown command: " \o tokensOf(expectedInput)[2])

\* The blanks the line starts with are all spaces
StartsWithSpacesOnly(s) ==
  \A j \in 1..(Len(s) - Len(trimStart(s))) : CharAt(s, j) = " "

\* What holds of C20: the same for the lines that do not start with a tab
\* or with spaces and a tab.
C20_ProgramNamePrefixAfterSpaces ==
  /\ (Parsed /\ ProgramNamePrefixed /\ StartsWithSpacesOnly(expectedInput))
       => actual = expected
  /\ (pc # "input" /\ Len(tokensOf(expectedInput)) >= 2
        /\ toLowerCase(tokensOf(expectedInput)[1]) = "npm"
        /\ toLowerCase(tokensOf(expectedInput)[2]) = "npm")
       => Fails(expected, "Unknown command: " \o tokensOf(expectedInput)[2])

\* `npm npm`: the second npm is the command token
C20_SecondNpmReached ==
  /\ pc # "input"
  /\ expectedInput = "npm npm"
  /\ expected.errorMessage = <<"Unknown command: npm">>

ShortcutException ==
  \/ /\ ResolvedName(expected) \in LifecycleNames
     /\ ResolvedName(actual) = "run"
     /\ ResolvedName(expected) \in Range(actual.packageNames)
  \/ /\ ResolvedName(expected) = "run"
     /\ ResolvedName(actual) \in LifecycleNames
     /\ expected.packageNames = <<ResolvedName(actual)>>

FlagsAgree == SameMultiset(expected.parameters, actual.parameters)

Refused(reason) == matchResult = [matches |-> FALSE, reason |-> <<reason>>]

\* C22: the reason of a no-match is that of the first failing check in the
\* order invalid operand, different command (after the shortcut exception),
\* flag count, flag contents, positional count, positional contents.
C22_CheckOrdering ==
  /\ (Compared /\ (~expected.isValid \/ ~actual.isValid))
       => Refused("Invalid command")
  /\ (BothValid /\ ~ShortcutException /\ ~SameCommand)
       => Refused("Different command")
  /\ (SameCommand /\ Len(expected.parameters) # Len(actual.parameters))
       => Refused("Different number of parameters")
  /\ (SameCommand /\ Len(expected.parameters) = Len(actual.parameters) /\ ~FlagsAgree)
       => Refused("Different parameters")
  /\ (SameCommand /\ FlagsAgree /\ Len(expected.packageNames) # Len(actual.packageNames))
       => Refused("Different number of packages")
  /\ (SameCommand /\ FlagsAgree /\ Len(expected.packageNames) = Len(actual.packageNames)
        /\ ~SameMultiset(expected.packageNames, actual.packageNames))
       => Refused("Different package names")

\* The same command with both the flags and the positionals differing
C22_Witness ==
  /\ SameCommand
  /\ ~FlagsAgree
  /\ ~SameMultiset(expected.packageNames, actual.packageNames)
  /\ matchResult.reason \in {<<"Different number of parameters">>, <<"Different parameters">>}

\* Different commands whose flags and positionals differ as well
C22_WitnessDifferentCommand ==
  /\ BothValid /\ ~SameCommand /\ ~ShortcutException
  /\ ~FlagsAgree
  /\ ~SameMultiset(expected.packageNames, actual.packageNames)
  /\ Refused("Different command")

\* The shape the claim gives to one result of parseCommand
WellShaped(parsed) ==
  /\ parsed.isValid <=> (parsed.command # None /\ parsed.errorMessage = None)
  /\ ~parsed.isValid
       => /\ parsed.command = None
          /\ parsed.errorMessage # None
          /\ parsed.parameters = <<>>
          /\ parsed.packageNames = <<>>

\* C23: every result of parseCommand is valid exactly when it carries a
\* resolved command and no error message; an invalid result carries no
\* command, an error message, and empty flag and positional lists.
C23_ResultShape ==
  /\ pc # "input" => WellShaped(expected)
  /\ Parsed => WellShaped(actual)

\* An unknown command followed by a flag on one side, a valid line with a
\* flag and a positional on the other
C23_Witness ==
  /\ Parsed
  /\ expectedInput = "npm frobnicate -g"
  /\ expected = InvalidCommand("Unknown command: frobnicate")
  /\ actual.isValid /\ actual.command # None /\ actual.errorMessage = None
  /\ actual.parameters = <<"-g">> /\ actual.packageNames = <<"lodash">>

\* One side is a lifecycle command and the other is `run` with more than one
\* positional
RunWithExtraPositionals(shortcut, run) ==
  /\ ResolvedName(shortcut) \in LifecycleNames
  /\ ResolvedName(run) = "run"
  /\ Len(run.packageNames) > 1

\* C24 as stated: on valid parse results commandsMatch is reflexive and
\* symmetric, the lifecycle commands against `run` with extra flags or extra
\* positionals included.
C24_Equivalence ==
  BothValid
    => /\ commandsMatch(expected, expected).matches
       /\ commandsMatch(actual, actual).matches
       /\ matchResult.matches = commandsMatch(actual, expected).matches

\* C24 as the comparator has it: reflexive on valid parse results, and
\* symmetric whenever neither side is `run` with more than one positional
\* against a lifecycle command (extra flags do not matter); in that case the
\* lifecycle command as expected matches a `run` naming it anywhere, while
\* the `run` as expected is refused.
C24_EquivalenceButExtraPositionals ==
  BothValid
    => /\ commandsMatch(expected, expected).matches
       /\ commandsMatch(actual, actual).matches
       /\ (~RunWithExtraPositionals(expected, actual) /\ ~RunWithExtraPositionals(actual, expected))
            => matchResult.matches = commandsMatch(actual, expected).matches
       /\ RunWithExtraPositionals(expected, actual)
            => /\ matchResult.matches <=> ResolvedName(expected) \in Range(actual.packageNames)
               /\ ~commandsMatch(actual, expected).matches

\* A lifecycle command against `run` carrying its name and an extra flag:
\* matched in both directions
C24_Witness ==
  /\ BothValid
  /\ ResolvedName(expected) \in LifecycleNames
  /\ ResolvedName(actual) = "run"
  /\ actual.packageNames = <<ResolvedName(expected)>>
  /\ actual.parameters # expected.parameters
  /\ matchResult.matches
  /\ commandsMatch(actual, expected).matches

\* A lifecycle command against `run` carrying its name and another
\* positional: matched in one direction only
C24_WitnessOneDirection ==
  /\ BothValid
  /\ RunWithExtraPositionals(expected, actual)
  /\ matchResult.matches
  /\ ~commandsMatch(actual, expected).matches

(***************************************************************************)
(* The task list of generateTasks (taskSystem.ts).  A task is modelled by  *)
(* its expectedCommand; its id is its position in the list (taskId++ from  *)
(* 1).  Titles, descriptions, hints and explanations play no part in the   *)
(* checking of an answer.                                                  *)
(***************************************************************************)

\* The expectedCommand of the tasks pushed one by one, in source order
LiteralTasks ==
  <<
    "npm init",
    "npm init -y",
    "npm init vite",
    "npm init vite my-app",
    "npm init @vitejs/app",
    "npm init react-app@latest",
    "npm init vite -- --template react",
    "npm init --init-author-name=\"John Doe\"",
    "npm init --init-author-name=\"John Doe\" --init-author-email=\"john@example.org\" --init-author-url=\"https://johndoe.dev\"",
    "npm init --init-license=MIT",
    "npm init --init-version=0.1.0",
    "npm init --init-type=module",
    "npm init --init-module=./my-init.js",
    "npm init --init-private",
    "npm init --scope=@acmecorp",
    "npm init -f",
    "npm init -w packages/frontend",
    "npm init --workspaces",
    "npm init -w packages/api vite",
    "npm init --workspaces --include-workspace-root",
    "npm install lodash",
    "npm install express body-parser",
    "npm install lodash@4.17.20",
    "npm install react@latest",
    "npm install ./my-package",
    "npm install ./package.tgz",
    "npm install https://example.com/package.tgz",
    "npm install git+https://github.com/user/repo.git",
    "npm install lodash/lodash",
    "npm install lodash/lodash#main",
    "npm install gitlab:lodash/lodash",
    "npm install gist:abc123def456",
    "npm install axios --no-save",
    "npm install react --save-exact",
    "npm install typescript --global",
    "npm install --install-strategy=hoisted",
    "npm install --install-strategy=nested",
    "npm install --install-strategy=shallow",
    "npm install --install-strategy=linked",
    "npm install --omit=dev",
    "npm install --omit=peer",
    "npm install --include=optional",
    "npm install --strict-peer-deps",
    "npm install --prefer-dedupe",
    "npm install lodash --no-package-lock",
    "npm install --package-lock-only",
    "npm install --foreground-scripts",
    "npm install --ignore-scripts",
    "npm install lodash --no-audit",
    "npm install lodash --before=2023-01-01",
    "npm install --no-bin-links",
    "npm install --no-fund",
    "npm install express --dry-run",
    "npm install --cpu=x64",
    "npm install --os=linux",
    "npm install --libc=glibc",
    "npm install lodash --workspace=packages/frontend",
    "npm install lodash --workspaces",
    "npm install lodash --workspaces --include-workspace-root",
    "npm install ./my-package --install-links",
    "npm install jest --save-dev",
    "npm install fsevents --save-optional",
    "npm install axios --save-prod --save-bundle",
    "npm uninstall lodash",
    "npm uninstall express body-parser",
    "npm uninstall typescript --global",
    "npm uninstall lodash --workspace=packages/frontend",
    "npm uninstall lodash --workspaces",
    "npm uninstall axios --workspaces --include-workspace-root",
    "npm ci",
    "npm ci --install-strategy=nested",
    "npm ci --legacy-bundling",
    "npm ci --global-style",
    "npm ci --omit=dev",
    "npm ci --strict-peer-deps",
    "npm ci --foreground-scripts",
    "npm ci --ignore-scripts",
    "npm ci --no-audit",
    "npm ci --dry-run",
    "npm ci --no-fund",
    "npm ci --workspace=packages/frontend",
    "npm ci --workspaces",
    "npm ci --workspaces --include-workspace-root",
    "npm update",
    "npm update lodash",
    "npm update --no-save",
    "npm update --global",
    "npm update --install-strategy=nested",
    "npm update --legacy-bundling",
    "npm update --global-style",
    "npm update --omit=dev",
    "npm update --include=optional",
    "npm update --strict-peer-deps",
    "npm update --no-package-lock",
    "npm update --foreground-scripts",
    "npm update --ignore-scripts",
    "npm update --no-audit",
    "npm update --before=2023-01-01",
    "npm update --no-bin-links",
    "npm update --no-fund",
    "npm update --dry-run",
    "npm update --workspace=packages/frontend",
    "npm update --workspaces",
    "npm update --workspaces --include-workspace-root",
    "npm update --install-links",
    "npm list",
    "npm list --all",
    "npm list --json",
    "npm list --long",
    "npm list --parseable",
    "npm list --global",
    "npm list --depth=1",
    "npm list --omit=dev",
    "npm list --include=optional",
    "npm list --link",
    "npm list --package-lock-only",
    "npm list --no-unicode",
    "npm list --workspace=packages/frontend",
    "npm list --workspaces",
    "npm list --workspaces --include-workspace-root",
    "npm list --install-links",
    "npm outdated",
    "npm outdated --all",
    "npm outdated --json",
    "npm outdated --long",
    "npm outdated --parseable",
    "npm outdated --global",
    "npm outdated --before=2023-01-01",
    "npm outdated --workspace=packages/frontend",
    "npm outdated --workspaces",
    "npm audit",
    "npm audit --audit-level=moderate",
    "npm audit fix --dry-run",
    "npm audit fix --force",
    "npm audit --json",
    "npm audit --package-lock-only",
    "npm audit --no-package-lock",
    "npm audit --omit=dev",
    "npm audit --include=optional",
    "npm audit fix --foreground-scripts",
    "npm audit fix --ignore-scripts",
    "npm audit --workspace=packages/frontend",
    "npm audit --workspaces",
    "npm audit --workspaces --include-workspace-root",
    "npm audit fix --install-links",
    "npm run",
    "npm run build",
    "npm run test -- --grep=\"pattern\"",
    "npm run build --workspace=packages/frontend",
    "npm run test --workspaces",
    "npm run build --workspaces --include-workspace-root",
    "npm run prebuild --if-present",
    "npm run build --ignore-scripts",
    "npm run build --foreground-scripts",
    "npm run build --script-shell=bash",
    "npm test",
    "npm test -- --verbose",
    "npm test --ignore-scripts",
    "npm test --script-shell=bash",
    "npm start",
    "npm start -- --port=4000",
    "npm start --ignore-scripts",
    "npm start --script-shell=bash",
    "npm stop",
    "npm stop -- --graceful",
    "npm stop --ignore-scripts",
    "npm stop --script-shell=bash",
    "npm restart",
    "npm restart -- --clean",
    "npm restart --ignore-scripts",
    "npm restart --script-shell=bash",
    "npm install-test",
    "npm install-test lodash",
    "npm install-test express --no-save",
    "npm install-test lodash --save-exact",
    "npm install-test typescript --global",
    "npm install-test --install-strategy=hoisted",
    "npm install-test --install-strategy=nested",
    "npm install-test --install-strategy=shallow",
    "npm install-test --install-strategy=linked",
    "npm install-test --omit=dev",
    "npm install-test --omit=peer",
    "npm install-test --include=optional",
    "npm install-test --strict-peer-deps",
    "npm install-test --prefer-dedupe",
    "npm install-test --no-package-lock",
    "npm install-test --package-lock-only",
    "npm install-test --foreground-scripts",
    "npm install-test --ignore-scripts",
    "npm install-test --no-audit",
    "npm install-test --before=2023-01-01",
    "npm install-test --no-bin-links",
    "npm install-test --no-fund",
    "npm install-test --dry-run",
    "npm install-test --cpu=x64",
    "npm install-test --os=linux",
    "npm install-test --libc=glibc",
    "npm install-test --workspace=packages/frontend",
    "npm install-test --workspaces",
    "npm install-test --workspaces --include-workspace-root",
    "npm install-test --install-links",
    "npm install-ci-test",
    "npm install-ci-test --install-strategy=nested",
    "npm install-ci-test --omit=dev",
    "npm install-ci-test --include=optional",
    "npm install-ci-test --strict-peer-deps",
    "npm install-ci-test --foreground-scripts",
    "npm install-ci-test --ignore-scripts",
    "npm install-ci-test --no-audit",
    "npm install-ci-test --no-bin-links",
    "npm install-ci-test --no-fund",
    "npm install-ci-test --dry-run",
    "npm install-ci-test --workspace=packages/backend",
    "npm install-ci-test --workspaces",
    "npm install-ci-test --workspaces --include-workspace-root",
    "npm install-ci-test --install-links",
    "npm version patch",
    "npm version minor",
    "npm version major",
    "npm version 2.5.0",
    "npm version prepatch",
    "npm version prerelease",
    "npm version from-git",
    "npm version 1.0.0 --allow-same-version",
    "npm version patch --no-commit-hooks",
    "npm version patch --no-git-tag-version",
    "npm version patch --json",
    "npm version prerelease --preid=rc",
    "npm version patch --sign-git-tag",
    "npm version patch --workspace=packages/frontend",
    "npm version patch --workspaces",
    "npm version patch --no-workspaces-update",
    "npm version patch --workspaces --include-workspace-root",
    "npm version patch --ignore-scripts",
    "npm publish",
    "npm publish my-package-1.0.0.tgz",
    "npm publish ./dist",
    "npm publish --tag=beta",
    "npm publish --access=public",
    "npm publish --access=restricted",
    "npm publish --dry-run",
    "npm publish --otp=123456",
    "npm publish --workspace=packages/frontend",
    "npm publish --workspaces",
    "npm publish --workspaces --include-workspace-root",
    "npm publish --provenance",
    "npm publish --provenance-file=./provenance.json",
    "npm unpublish my-package@1.0.0",
    "npm unpublish my-package --force",
    "npm unpublish my-package@1.0.0 --dry-run",
    "npm unpublish my-package --force",
    "npm unpublish --workspace=packages/frontend",
    "npm unpublish --workspaces",
    "npm deprecate my-package@1.0.0 \"Use version 2.0.0 instead\"",
    "npm deprecate my-package@\"< 2.0.0\" \"Upgrade to 2.x\"",
    "npm deprecate my-package@1.0.0 \"\"",
    "npm deprecate my-package@1.0.0 \"Old version\" --registry=https://custom.registry.com",
    "npm deprecate my-package@1.0.0 \"Deprecated\" --otp=123456",
    "npm deprecate my-package@1.0.0 \"Old\" --dry-run",
    "npm search react",
    "npm search react typescript",
    "npm search =sindresorhus",
    "npm search /^react-/",
    "npm search react --json",
    "npm search react --no-color",
    "npm search react --parseable",
    "npm search react --no-description",
    "npm search react --searchlimit=10",
    "npm search react --searchopts=\"typescript\"",
    "npm search react --searchexclude=\"native\"",
    "npm search react --registry=https://custom.registry.com",
    "npm search react --prefer-online",
    "npm search react --prefer-offline",
    "npm search react --offline",
    "npm view lodash",
    "npm view lodash@4.17.21",
    "npm view express dependencies",
    "npm view npm repository.url",
    "npm view . dependencies",
    "npm view express contributors.email",
    "npm view express contributors[0].email",
    "npm view lodash name version",
    "npm view react versions",
    "npm view lodash --json",
    "npm view --workspace=packages/frontend",
    "npm view --workspaces",
    "npm view --workspaces --include-workspace-root",
    "npm explain lodash",
    "npm explain node_modules/react",
    "npm explain node_modules/lodash/node_modules/clone",
    "npm explain lodash --json",
    "npm explain lodash --workspace=packages/frontend",
    "npm fund",
    "npm fund lodash",
    "npm fund --json",
    "npm fund lodash --no-browser",
    "npm fund --no-unicode",
    "npm fund --workspace=packages/frontend",
    "npm fund lodash --which=2",
    "npm config set registry=https://custom.registry.com",
    "npm config get registry",
    "npm config get registry prefix",
    "npm config list",
    "npm config delete registry",
    "npm config edit",
    "npm config fix",
    "npm config list --json",
    "npm config set prefix=/usr/local --global",
    "npm config edit --global",
    "npm config edit --editor=vim",
    "npm config set registry=https://custom.com --location=project",
    "npm config list -l",
    "npm get registry",
    "npm get",
    "npm get registry prefix",
    "npm set registry=https://registry.npmjs.org",
    "npm set registry=https://custom.com save-exact=true",
    "npm set registry",
    "npm set prefix=/usr/local --global",
    "npm set registry=https://custom.com --location=project",
    "npm cache add express",
    "npm cache clean lodash",
    "npm cache clean --force",
    "npm cache ls",
    "npm cache ls lodash",
    "npm cache verify",
    "npm cache npx ls",
    "npm cache npx rm create-react-app",
    "npm cache npx info create-react-app",
    "npm cache verify --cache=/custom/cache",
    "npm prune",
    "npm prune lodash",
    "npm prune --omit=dev",
    "npm prune --omit=optional",
    "npm prune --omit=peer",
    "npm prune --include=dev",
    "npm prune --dry-run",
    "npm prune --json",
    "npm prune --foreground-scripts",
    "npm prune --ignore-scripts",
    "npm prune --workspace=packages/app",
    "npm prune --workspaces",
    "npm prune --include-workspace-root",
    "npm prune --install-links",
    "npm dedupe",
    "npm dedupe --install-strategy=hoisted",
    "npm dedupe --install-strategy=nested",
    "npm dedupe --install-strategy=shallow",
    "npm dedupe --install-strategy=linked",
    "npm dedupe --legacy-bundling",
    "npm dedupe --global-style",
    "npm dedupe --strict-peer-deps",
    "npm dedupe --no-package-lock",
    "npm dedupe --omit=dev",
    "npm dedupe --omit=optional",
    "npm dedupe --omit=peer",
    "npm dedupe --include=dev",
    "npm dedupe --ignore-scripts",
    "npm dedupe --no-audit",
    "npm dedupe --no-bin-links",
    "npm dedupe --no-fund",
    "npm dedupe --dry-run",
    "npm dedupe --workspace=packages/app",
    "npm dedupe --workspaces",
    "npm dedupe --include-workspace-root",
    "npm dedupe --install-links",
    "npm find-dupes",
    "npm find-dupes --install-strategy=hoisted",
    "npm find-dupes --install-strategy=nested",
    "npm find-dupes --install-strategy=shallow",
    "npm find-dupes --install-strategy=linked",
    "npm find-dupes --legacy-bundling",
    "npm find-dupes --global-style",
    "npm find-dupes --strict-peer-deps",
    "npm find-dupes --no-package-lock",
    "npm find-dupes --omit=dev",
    "npm find-dupes --omit=optional",
    "npm find-dupes --omit=peer",
    "npm find-dupes --include=dev",
    "npm find-dupes --ignore-scripts",
    "npm find-dupes --no-audit",
    "npm find-dupes --no-bin-links",
    "npm find-dupes --no-fund",
    "npm find-dupes --workspace=packages/app",
    "npm find-dupes --workspaces",
    "npm find-dupes --include-workspace-root",
    "npm find-dupes --install-links",
    "npm rebuild",
    "npm rebuild bcrypt",
    "npm rebuild --global",
    "npm rebuild --no-bin-links",
    "npm rebuild --foreground-scripts",
    "npm rebuild --ignore-scripts",
    "npm rebuild --workspace=packages/app",
    "npm rebuild --workspaces",
    "npm rebuild --include-workspace-root",
    "npm rebuild --install-links" >>

\* The commands the loop over NPM_COMMANDS passes over (continue)
SkippedCommands ==
  { "init", "install", "uninstall", "ci", "update", "list", "outdated", "audit",
    "run", "test", "start", "stop", "restart", "install-test", "install-ci-test",
    "version", "publish", "unpublish", "deprecate", "search", "view", "explain",
    "fund", "config", "get", "set", "cache", "prune", "dedupe", "find-dupes",
    "rebuild" }

examplePackages == <<"lodash", "express", "react", "axios", "chalk">>

\* examplePackages[packageIndex % examplePackages.length]
examplePackage(packageIndex) == examplePackages[(packageIndex % Len(examplePackages)) + 1]

requiresPackage(cmd) == cmd.name \in {"install", "uninstall", "update", "view", "explain"}

requiresScriptName(cmd) == cmd.name = "run"

\* The example value written after a parameter that requires one
exampleValue(paramName) ==
  IF paramName = "--depth" THEN "0"
  ELSE IF paramName = "--scope" THEN "@mycompany"
  ELSE IF paramName = "--init-author-name" THEN "\"John Doe\""
  ELSE IF paramName = "--init-author-email" THEN "\"john@example.org\""
  ELSE IF paramName = "--init-author-url" THEN "\"https://johndoe.dev\""
  ELSE IF paramName = "--init-license" THEN "\"GPL-3.0\""
  ELSE IF paramName = "--init-version" THEN "\"1.5.0\""
  ELSE IF paramName = "--init-type" THEN "\"module\""
  ELSE IF paramName = "--init-module" THEN "\"./my-init.js\""
  ELSE IF paramName = "-w" \/ paramName = "--workspace" THEN "\"packages/tools\""
  ELSE "example"

\* The base task of a command: the command without parameters
baseTask(cmd, packageIndex) ==
  IF requiresPackage(cmd)
    THEN "npm " \o cmd.name \o " " \o examplePackage(packageIndex)
    ELSE "npm " \o cmd.name

\* The tasks pushed for one parameter of a command (none for the parameters
\* of `run` other than build and --silent)
parameterTask(cmd, param, packageIndex) ==
  IF requiresPackage(cmd)
    THEN IF param.requiresValue
           THEN << "npm " \o cmd.name \o " " \o examplePackage(packageIndex) \o " "
                     \o param.name \o " " \o exampleValue(param.name) >>
           ELSE << "npm " \o cmd.name \o " " \o examplePackage(packageIndex) \o " "
                     \o param.name >>
  ELSE IF requiresScriptName(cmd)
    THEN IF param.name = "build" THEN << "npm " \o cmd.name \o " " \o param.name >>
         ELSE IF param.name = "--silent"
           THEN << "npm " \o cmd.name \o " build " \o param.name >>
         ELSE << >>
  ELSE IF param.requiresValue
    THEN << "npm " \o cmd.name \o " " \o param.name \o "=" \o exampleValue(param.name) >>
    ELSE << "npm " \o cmd.name \o " " \o param.name >>

\* for (const param of cmd.parameters): the tasks of parameters j, j+1, ...
\* (packageIndex++ before each task of a command that requires a package)
RECURSIVE parameterTasksFrom(_, _, _)
parameterTasksFrom(cmd, j, packageIndex) ==
  IF j > Len(cmd.parameters) THEN << >>
  ELSE parameterTask(cmd, cmd.parameters[j], packageIndex)
         \o parameterTasksFrom(cmd, j + 1,
                                IF requiresPackage(cmd) THEN packageIndex + 1 ELSE packageIndex)

\* for (const cmd of NPM_COMMANDS): the tasks of commands k, k+1, ...
RECURSIVE generatedTasksFrom(_, _)
generatedTasksFrom(k, packageIndex) ==
  IF k > Len(NPM_COMMANDS) THEN << >>
  ELSE LET cmd == NPM_COMMANDS[k] IN
    IF cmd.name \in SkippedCommands THEN generatedTasksFrom(k + 1, packageIndex)
    ELSE LET afterBase == IF requiresPackage(cmd) THEN packageIndex + 1 ELSE packageIndex
             afterParameters ==
               IF requiresPackage(cmd) THEN afterBase + Len(cmd.parameters) ELSE afterBase
         IN  << baseTask(cmd, packageIndex) >>
               \o parameterTasksFrom(cmd, 1, afterBase)
               \o generatedTasksFrom(k + 1, afterParameters)

\* The expectedCommand of every task, in the order of the task ids
generateTasks == LiteralTasks \o generatedTasksFrom(1, 0)

(***************************************************************************)
(* A task answered by its own displayed solution:                          *)
(* validateTaskCompletion(task, task.expectedCommand) for a task of the    *)
(* list.                                                                   *)
(***************************************************************************)
InitTasks ==
  /\ catalog = NPM_COMMANDS
  /\ \E id \in 1..Len(generateTasks) :
       /\ expectedInput = generateTasks[id]
       /\ actualInput = generateTasks[id]
  /\ parts = <<>>
  /\ expected = NotParsed
  /\ actual = NotParsed
  /\ matchResult = NotCompared
  /\ pc = "input"
  /\ calls = 0
  /\ AppMounted(None)

SpecTasks == InitTasks /\ [][Next]_vars

\* const isCorrect = matchResult.matches (false as well when the answer
\* does not parse)
isCorrect == matchResult.matches

\* C25: every task of generateTasks is solved by its own displayed solution:
\* its expectedCommand parses as valid against the shipped catalog and
\* matches itself.
C25_EveryTaskSolvable ==
  /\ Parsed => expected.isValid /\ actual.isValid
  /\ Compared => isCorrect

\* A task whose displayed solution is accepted
C25_SolvableReached ==
  /\ Compared
  /\ expectedInput = "npm init -y"
  /\ actualInput = expectedInput
  /\ isCorrect

(***************************************************************************)
(* The app (App.tsx): the handlers of the component and the answers of     *)
(* AsyncStorage.  A handler that awaits AsyncStorage goes on when its      *)
(* request is served; AsyncStorage serves the requests in the order of     *)
(* their calls.  setProgress with a new object re-renders the component,   *)
(* and the effect on [progress] calls saveProgress(progress) without       *)
(* awaiting it.                                                            *)
(***************************************************************************)

\* The items AsyncStorage can hold when the app starts: nothing, or the
\* progress of an earlier session (one of them of an earlier task list)
StoredSessions ==
  {None, Some(DefaultProgress)}
    \cup { Some(resetProgress(c, order)) : c \in 1..MaxRounds, order \in shuffleArray(baseOrder) }
    \cup { Some([currentTaskId |-> 1, completedTaskIds |-> <<>>, totalTasks |-> NumTasks + 1,
                 completionCount |-> 1, taskOrder |-> [i \in 1..(NumTasks + 1) |-> i]]) }

\* No evaluation of the equivalence engine is under way
EngineIdle ==
  /\ catalog = NPM_COMMANDS
  /\ expectedInput = ""
  /\ actualInput = ""
  /\ parts = <<>>
  /\ expected = NotParsed
  /\ actual = NotParsed
  /\ matchResult = NotCompared
  /\ pc = "input"
  /\ calls = 0

InitApp ==
  /\ EngineIdle
  /\ \E saved \in StoredSessions : AppMounted(saved)

\* The requests after the save effect of a render with the progress p
Saved(pending, p) == Append(pending, Save("effect", p))

\* handleSubmit with an answer validateTaskCompletion accepts
SubmitCorrect ==
  /\ currentTaskOf(progress) # None
  /\ LET newProgress == updateProgress(progress, currentTaskOf(progress)[1]) IN
       IF newProgress # progress
         THEN /\ Len(requests) < MaxPending
              /\ progress' = newProgress
              /\ requests' = Saved(requests, newProgress)
         ELSE UNCHANGED <<progress, requests>>
  /\ feedback' = "correct"
  /\ UNCHANGED storage
  /\ UNCHANGED engineVars

\* handleSubmit with an answer validateTaskCompletion rejects
SubmitIncorrect ==
  /\ currentTaskOf(progress) # None
  /\ feedback' = "incorrect"
  /\ UNCHANGED <<progress, storage, requests>>
  /\ UNCHANGED engineVars

\* handleSubmit with the hidden command complete-all, up to its await
SubmitCompleteAll ==
  /\ currentTaskOf(progress) # None
  /\ progress.completionCount < MaxRounds
  /\ Len(requests) < MaxPending
  /\ \E taskOrder \in shuffleArray(baseOrder) :
       requests' = Append(requests,
                          Save("complete-all", completeAllTasks(progress, taskOrder)))
  /\ UNCHANGED <<progress, storage, feedback>>
  /\ UNCHANGED engineVars

\* handleSubmit with the hidden command hard-reset, up to its await
SubmitHardReset ==
  /\ currentTaskOf(progress) # None
  /\ Len(requests) < MaxPending
  /\ requests' = Append(requests, Save("hard-reset", hardResetProgress))
  /\ UNCHANGED <<progress, storage, feedback>>
  /\ UNCHANGED engineVars

\* The Next button (shown with a task on display)
goToNextTask ==
  /\ currentTaskOf(progress) # None
  /\ progress.currentTaskId < NumTasks
  /\ Len(requests) < MaxPending
  /\ progress' = [progress EXCEPT !.currentTaskId = @ + 1]
  /\ requests' = Saved(requests, progress')
  /\ feedback' = ""
  /\ UNCHANGED storage
  /\ UNCHANGED engineVars

\* The Previous button
goToPreviousTask ==
  /\ currentTaskOf(progress) # None
  /\ progress.currentTaskId > 1
  /\ Len(requests) < MaxPending
  /\ progress' = [progress EXCEPT !.currentTaskId = @ - 1]
  /\ requests' = Saved(requests, progress')
  /\ feedback' = ""
  /\ UNCHANGED storage
  /\ UNCHANGED engineVars

\* The hidden jump input with the number taskNum
handleJumpToTask ==
  /\ currentTaskOf(progress) # None
  /\ Len(requests) < MaxPending
  /\ \E taskNum \in 0..(NumTasks + 1) :
       /\ taskNum >= 1 /\ taskNum <= NumTasks
       /\ progress' = [progress EXCEPT !.currentTaskId = taskNum]
  /\ requests' = Saved(requests, progress')
  /\ feedback' = ""
  /\ UNCHANGED storage
  /\ UNCHANGED engineVars

\* The Start New Round button of the completion card, up to its await
handleStartNewRound ==
  /\ currentTaskOf(progress) = None
  /\ progress.completionCount < MaxRounds
  /\ Len(requests) < MaxPending
  /\ \E taskOrder \in shuffleArray(baseOrder) :
       requests' = Append(requests,
                          Save("new-round", startNewRound(progress, taskOrder)))
  /\ UNCHANGED <<progress, storage, feedback>>
  /\ UNCHANGED engineVars

\* The Reset button, up to the first await of resetProgress
handleResetProgress ==
  /\ Len(requests) < MaxPending
  /\ requests' = Append(requests, GetItem("reset", progress))
  /\ UNCHANGED <<progress, storage, feedback>>
  /\ UNCHANGED engineVars

\* AsyncStorage serves the setItem of an un-awaited saveProgress
SaveLanded ==
  /\ requests # <<>>
  /\ Head(requests).op = "setItem" /\ Head(requests).by = "effect"
  /\ storage' = Head(requests).value
  /\ requests' = Tail(requests)
  /\ UNCHANGED <<progress, feedback>>
  /\ UNCHANGED engineVars

\* AsyncStorage serves the getItem of getInitialProgress; then(setProgress)
LoadResolved ==
  /\ requests # <<>>
  /\ Head(requests).by = "load"
  /\ progress' = getInitialProgress(storage)
  /\ requests' = Saved(Tail(requests), progress')
  /\ UNCHANGED <<storage, feedback>>
  /\ UNCHANGED engineVars

\* AsyncStorage serves the getItem of resetProgress, which goes on to its
\* setItem
ResetRead ==
  /\ requests # <<>>
  /\ Head(requests).by = "reset" /\ Head(requests).op = "getItem"
  /\ \E taskOrder \in resetOrders(savedCompletionCount(storage)) :
       requests' = Append(Tail(requests),
                          SetItem("reset",
                                  resetProgress(savedCompletionCount(storage), taskOrder),
                                  Head(requests).progress))
  /\ UNCHANGED <<progress, storage, feedback>>
  /\ UNCHANGED engineVars

\* AsyncStorage serves the setItem of resetProgress; handleResetProgress
\* goes on with setProgress(newProgress)
ResetResolved ==
  /\ requests # <<>>
  /\ Head(requests).by = "reset" /\ Head(requests).op = "setItem"
  /\ storage' = Head(requests).value
  /\ progress' = Head(requests).value[1]
  /\ requests' = Saved(Tail(requests), progress')
  /\ feedback' = ""
  /\ UNCHANGED engineVars

\* AsyncStorage serves the setItem of completeAllTasks, startNewRound or
\* hardResetProgress; the handler goes on with setProgress(newProgress)
SaveResolved ==
  /\ requests # <<>>
  /\ Head(requests).by \in {"complete-all", "new-round", "hard-reset"}
  /\ storage' = Head(requests).value
  /\ progress' = Head(requests).value[1]
  /\ requests' = Saved(Tail(requests), progress')
  /\ feedback' = IF Head(requests).by = "hard-reset" THEN "hard-reset" ELSE ""
  /\ UNCHANGED engineVars

\* What the user can do
UserAction ==
  \/ SubmitCorrect \/ SubmitIncorrect \/ SubmitCompleteAll \/ SubmitHardReset
  \/ goToNextTask \/ goToPreviousTask \/ handleJumpToTask
  \/ handleStartNewRound \/ handleResetProgress

\* AsyncStorage serves the oldest request and its caller goes on
StorageAction == SaveLanded \/ LoadResolved \/ ResetRead \/ ResetResolved \/ SaveResolved

NextApp == UserAction \/ StorageAction

SpecApp == InitApp /\ [][NextApp]_vars

\* Every request has been served: no handler and no save is under way
Settled == requests = <<>>

\* The app used one handler at a time: the user acts when the handler
\* before and the saves it caused are through, so that a behaviour is a
\* sequence of whole calls of updateProgress, resetProgress, startNewRound,
\* completeAllTasks and hardResetProgress
NextSettled == (Settled /\ UserAction) \/ StorageAction

SpecSettled == InitApp /\ [][NextSettled]_vars

(***************************************************************************)
(* The claims about the progress of the user.                              *)
(***************************************************************************)

\* The task on display has not been completed yet
DisplayedNotCompleted ==
  /\ currentTaskOf(progress) # None
  /\ ~includes(progress.completedTaskIds, currentTaskOf(progress)[1])

AllCompleted(p) == \A id \in TaskIds : includes(p.completedTaskIds, id)

\* C26: a correct answer to the not yet completed task on display at
\* position p of taskOrder, sequential or shuffled, leaves currentTaskId at
\* p + 1 and taskOrder as it was, so that the task at position p + 1 is on
\* display next.
C26_AdvanceToNextPosition ==
  [][(SubmitCorrect /\ DisplayedNotCompleted)
       => /\ progress'.currentTaskId = progress.currentTaskId + 1
          /\ progress'.taskOrder = progress.taskOrder]_vars

\* In sequential order the answer does lead to the next position
C26_SequentialAdvanceReached ==
  /\ progress.taskOrder = baseOrder
  /\ progress.completedTaskIds = <<1>>
  /\ progress.currentTaskId = 2
  /\ feedback = "correct"

\* C27: whatever the user has done (answers right and wrong, Previous, Next
\* and jump, reset, hard reset, new round), the completion card is shown
\* (there is no task at position currentTaskId of taskOrder) only if
\* completedTaskIds holds the id of every task.
C27_CompletionScreenSound ==
  currentTaskOf(progress) = None => AllCompleted(progress)

\* The completion card after every task has been answered
C27_CompletedAllReached ==
  /\ currentTaskOf(progress) = None
  /\ AllCompleted(progress)
  /\ progress.completionCount = 0
  /\ feedback = "correct"

\* order holds each of the ids 1..total exactly once
IsPermutation(order, total) ==
  /\ Len(order) = total
  /\ \A id \in 1..total : Cardinality({ i \in 1..Len(order) : order[i] = id }) = 1

\* C28: taskOrder always holds each task id 1..totalTasks exactly once,
\* whatever sequence of updateProgress, resetProgress, startNewRound,
\* completeAllTasks and hardResetProgress has run, and every outcome of
\* shuffleArray is a permutation of the array it was given.
C28_TaskOrderPermutation ==
  /\ IsPermutation(progress.taskOrder, progress.totalTasks)
  /\ \A shuffled \in shuffleArray(progress.taskOrder) :
       IsPermutation(shuffled, Len(progress.taskOrder))

\* completeAllTasks has shuffled the order of the next round
C28_Witness ==
  /\ progress.taskOrder # baseOrder
  /\ progress.completedTaskIds = baseOrder
  /\ progress.currentTaskId = NumTasks + 1
  /\ progress.completionCount = 1

\* C29: a reset in the app, however it interleaves with the saves the app
\* has not awaited, ends with currentTaskId = 1, no completed task and the
\* completionCount the progress in memory held just before the reset, be
\* that when Reset was pressed or when the reset progress was put in place
\* (only hardResetProgress sets the count to 0).
C29_ResetKeepsCompletionCount ==
  [][ResetResolved
       => /\ progress'.currentTaskId = 1
          /\ progress'.completedTaskIds = <<>>
          /\ progress'.completionCount
               \in {Head(requests).progress.completionCount,
                    progress.completionCount}]_vars

\* A reset with nothing in flight has kept the count of finished rounds
C29_QuietResetReached ==
  /\ Settled
  /\ progress.completionCount = 1
  /\ progress.currentTaskId = 1
  /\ progress.completedTaskIds = <<>>
  /\ storage = Some(progress)
  /\ feedback = ""

\* No id occurs twice in the sequence
NoDuplicates(ids) ==
  \A i, j \in 1..Len(ids) : ids[i] = ids[j] => i = j

\* C30: updateProgress with a task id already in completedTaskIds returns
\* the progress unchanged, currentTaskId included; so completedTaskIds never
\* holds an id twice, and a correct answer adds at most the one id answered
\* to it, getProgressStats.completed growing by one at most and never
\* exceeding the number of distinct tasks.
C30_UpdateProgressIdempotent ==
  /\ [](/\ NoDuplicates(progress.completedTaskIds)
        /\ getProgressStats(progress).completed <= NumTasks
        /\ \A id \in TaskIds :
             updateProgress(updateProgress(progress, id), id)
               = updateProgress(progress, id))
  /\ [][SubmitCorrect =>
          IF DisplayedNotCompleted
            THEN /\ progress'.completedTaskIds
                      = Append(progress.completedTaskIds, currentTaskOf(progress)[1])
                 /\ getProgressStats(progress').completed
                      = getProgressStats(progress).completed + 1
            ELSE progress' = progress]_vars

\* The first task was answered, displayed again with Previous and answered
\* once more
C30_Witness ==
  /\ feedback = "correct"
  /\ progress.taskOrder = baseOrder
  /\ progress.completedTaskIds = <<1>>
  /\ progress.currentTaskId = 1
====
